-------------------------- MODULE JiebaShareProofs --------------------------
(***************************************************************************)
(* What JiebaShare promises for any number of backends, machine-checked.   *)
(* The invariants are stacked, each proved with those above it at hand:    *)
(*                                                                         *)
(*   IInv       types, kernel objects, flags: always                       *)
(*   LockInv    the mutex: always                                          *)
(*   FilesInv   files only grow newer: unless they vanish                  *)
(*   BuildInv   who writes a segment, and when: unless it is cut           *)
(*   FreshInv   what was hashed and what was read: under both              *)
(*   CalmInv    one backend inside: Undisturbed, and nobody is overtaken   *)
(*   FirstInv   one dictionary, until a file changes: Undisturbed          *)
(***************************************************************************)
EXTENDS JiebaShare, TLAPS

-----------------------------------------------------------------------------
(* The kernel-object helpers keep the types.                               *)

\* Whatever the mutexes are set to, objects outside use are normalised away.
LEMMA LocksType ==
  ASSUME NEW name \in LockIds \cup {None},
         NEW handle \in [Backends -> LockIds \cup {None}],
         NEW owner \in [LockIds -> Backends \cup {None, Dead}],
         Locks(name, handle, owner)
  PROVE  LockType'
BY DEF Locks, LockType

\* The initial values are in their domains.
LEMMA EmptyType ==
  /\ NothingLoaded \in Content
  /\ EmptySegment \in Segment
  /\ NotHashed \in Fingerprint
BY BoundAssumption
   DEF EmptySegment, Segment, NothingLoaded, Content, Version, NotHashed, Fingerprint

\* Likewise for the segments.
LEMMA SegmentsType ==
  ASSUME NEW name \in SegIds \cup {None},
         NEW map \in [Backends -> SegIds \cup {None}],
         NEW object \in [SegIds -> Segment],
         Segments(name, map, object)
  PROVE  ShmType'
BY EmptyType DEF Segments, ShmType

\* named_recursive_mutex(open_or_create, ...) yields a mutex.
LEMMA OpenOrCreateLockType ==
  ASSUME LockType, NEW b \in Backends, OpenOrCreateLock(b)
  PROVE  LockType'
<1>1. CASE lockName # None
  <2>1. lockName \in LockIds
    BY <1>1 DEF LockType
  <2>2. [gLock EXCEPT ![b] = lockName] \in [Backends -> LockIds \cup {None}]
    BY <2>1 DEF LockType
  <2>. QED
    BY <1>1, <2>1, <2>2, LocksType DEF OpenOrCreateLock, LockType
<1>2. CASE lockName = None
  <2>. DEFINE l == CHOOSE x \in FreeLocks : TRUE
  <2>1. l \in LockIds
    BY <1>2 DEF OpenOrCreateLock, FreeLocks
  <2>2. [gLock EXCEPT ![b] = l] \in [Backends -> LockIds \cup {None}]
    BY <2>1 DEF LockType
  <2>3. [lockOwner EXCEPT ![l] = None] \in [LockIds -> Backends \cup {None, Dead}]
    BY DEF LockType
  <2>4. Locks(l, [gLock EXCEPT ![b] = l], [lockOwner EXCEPT ![l] = None])
    BY <1>2 DEF OpenOrCreateLock
  <2>. QED
    BY <2>1, <2>2, <2>3, <2>4, LocksType
<1>. QED
  BY <1>1, <1>2

\* managed_shared_memory(open_or_create or create_only, ...) yields a segment.
LEMMA CreateSegmentType ==
  ASSUME ShmType, NEW b \in Backends, CreateSegment(b)
  PROVE  ShmType'
<1>. DEFINE s == CHOOSE x \in FreeSegs : TRUE
<1>1. s \in SegIds
  BY DEF CreateSegment, FreeSegs
<1>2. [gSegment EXCEPT ![b] = s] \in [Backends -> SegIds \cup {None}]
  BY <1>1 DEF ShmType
<1>3. [shm EXCEPT ![s] = EmptySegment] \in [SegIds -> Segment]
  BY EmptyType DEF ShmType
<1>4. Segments(s, [gSegment EXCEPT ![b] = s], [shm EXCEPT ![s] = EmptySegment])
  BY DEF CreateSegment
<1>. QED
  BY <1>1, <1>2, <1>3, <1>4, SegmentsType

\* Removing the mutex's name keeps the types.
LEMMA RemoveLockType == ASSUME LockType, RemoveLock PROVE LockType'
BY LocksType DEF RemoveLock, LockType

\* Removing the segment's name keeps the types.
LEMMA RemoveShmType == ASSUME ShmType, RemoveShm PROVE ShmType'
BY SegmentsType DEF RemoveShm, ShmType

\* Each part of the type invariant survives a step that leaves its variables alone.
LEMMA UnchangedType ==
  /\ LockType /\ UNCHANGED lockVars => LockType'
  /\ ShmType /\ UNCHANGED shmVars => ShmType'
  /\ EnvType /\ UNCHANGED envVars => EnvType'
  /\ ProcType /\ UNCHANGED <<procVars, pc>> => ProcType'
BY DEF LockType, ShmType, EnvType, ProcType, lockVars, shmVars, envVars, procVars

-----------------------------------------------------------------------------
(* Every action keeps the types.                                           *)

\* A step that only moves a backend's control keeps the types.
LEMMA GotoType ==
  ASSUME ProcType, NEW b \in Backends, NEW label \in Busy \cup {"idle", "dead"},
         Goto(b, label), UNCHANGED procVars
  PROVE  ProcType'
BY DEF ProcType, Goto, procVars

\* The end of any set of processes keeps the types.
LEMMA ExitType ==
  ASSUME TypeOK, NEW gone \in SUBSET Backends, NEW label \in {"idle", "dead"},
         Exit(gone, label)
  PROVE  LockType' /\ ShmType' /\ ProcType'
<1>. DEFINE drop(f, v) == [b \in Backends |-> IF b \in gone THEN v ELSE f[b]]
            owner == [l \in LockIds |->
                        IF lockOwner[l] \in gone THEN Dead ELSE lockOwner[l]]
<1>1. LockType'
  <2>1. drop(gLock, None) \in [Backends -> LockIds \cup {None}]
    BY DEF TypeOK, LockType
  <2>2. owner \in [LockIds -> Backends \cup {None, Dead}]
    BY DEF TypeOK, LockType
  <2>3. Locks(lockName, drop(gLock, None), owner)
    BY DEF Exit
  <2>. QED
    BY <2>1, <2>2, <2>3, LocksType DEF TypeOK, LockType
<1>2. ShmType'
  <2>1. drop(gSegment, None) \in [Backends -> SegIds \cup {None}]
    BY DEF TypeOK, ShmType
  <2>2. Segments(shmName, drop(gSegment, None), shm)
    BY DEF Exit
  <2>. QED
    BY <2>1, <2>2, SegmentsType DEF TypeOK, ShmType
<1>3. ProcType'
  BY EmptyType DEF TypeOK, ProcType, Exit
<1>. QED
  BY <1>1, <1>2, <1>3

\* A crash keeps the types.
LEMMA DieType ==
  ASSUME TypeOK, NEW b \in Backends, Die(b) PROVE TypeOK'
BY ExitType, UnchangedType DEF Die, TypeOK

\* A failing parse_init() keeps the types.
LEMMA FailType ==
  ASSUME TypeOK, NEW b \in Backends, Fail(b) PROVE EnvType' /\ ProcType'
BY EmptyType, UnchangedType DEF Fail, Goto, TypeOK, ProcType

\* A step that touches no kernel object keeps the types.
LEMMA LocalType ==
  ASSUME TypeOK, NEW b \in Backends,
         NEW from, NEW to \in Busy \cup {"idle", "dead"}, Local(b, from, to),
         gsVsValue' \in [Backends -> Fingerprint],
         dictTrie' \in [Backends -> Content]
  PROVE  TypeOK'
BY UnchangedType DEF Local, Goto, TypeOK, ProcType

\* Taking the mutex keeps the types.
LEMMA AcquireType ==
  ASSUME TypeOK, NEW b \in Backends, NEW from, Acquire(b, from) PROVE TypeOK'
<1>1. [lockOwner EXCEPT ![gLock[b]] = b] \in [LockIds -> Backends \cup {None, Dead}]
  BY DEF TypeOK, LockType
<1>2. LockType'
  BY <1>1, LocksType DEF Acquire, TypeOK, LockType
<1>. QED
  BY <1>2, GotoType, UnchangedType DEF Acquire, TypeOK, Busy, Critical

\* Releasing the mutex and dropping its handle keep the types.
LEMMA ReleaseType ==
  ASSUME TypeOK, NEW b \in Backends, Release(b) PROVE LockType'
<1>1. [lockOwner EXCEPT ![gLock[b]] = None] \in [LockIds -> Backends \cup {None, Dead}]
  BY DEF TypeOK, LockType
<1>2. [gLock EXCEPT ![b] = None] \in [Backends -> LockIds \cup {None}]
  BY DEF TypeOK, LockType
<1>. QED
  BY <1>1, <1>2, LocksType DEF Release, TypeOK, LockType

-----------------------------------------------------------------------------
(* The inductive invariant: what the control point of a backend says about  *)
(* its segment and its globals.  TypeOK is not inductive without it: that a *)
(* trie is built over a dictionary depends on the way to that point.        *)

Mapping == {"verify", "load", "loadUser", "construct", "fill", "tag", "shrink",
            "trie", "unlock"}
Filled  == {"fill", "tag", "shrink", "trie", "unlock"}

Sound(b) ==
  /\ pc[b] \in Mapping => gSegment[b] # None
  /\ pc[b] \in Filled => shm[gSegment[b]].units # "absent"
  /\ gJiaba[b] # None => /\ pc[b] \in {"idle", "unlock"}
                         /\ gSegment[b] = gJiaba[b].seg
                         /\ gSegment[b] # None
                         /\ shm[gSegment[b]].units # "absent"
  /\ pc[b] = "unlock" => gJiaba[b] # None
  /\ pc[b] = "idle" => (gInited[b] <=> gJiaba[b] # None)

IInv == TypeOK /\ \A b \in Backends : Sound(b)

\* No step empties a segment somebody keeps mapped.
Kept == \A c \in Backends :
  gSegment'[c] = gSegment[c] /\ gSegment[c] # None
    /\ shm[gSegment[c]].units # "absent" => shm'[gSegment[c]].units # "absent"

\* Objects in use keep their dictionary when no object loses its own.
LEMMA KeptBySegments ==
  ASSUME ShmType, NEW name, NEW map, NEW object, Segments(name, map, object),
         \A s \in SegIds : shm[s].units # "absent" => object[s].units # "absent"
  PROVE  Kept
BY DEF ShmType, Segments, Kept

\* A new segment takes nothing away from the segments in use.
LEMMA KeptByCreate ==
  ASSUME ShmType, NEW b \in Backends, CreateSegment(b)
  PROVE  /\ Kept
         /\ gSegment'[b] \in SegIds
         /\ \A c \in Backends \ {b} : gSegment'[c] = gSegment[c]
<1>. DEFINE s == CHOOSE x \in FreeSegs : TRUE
            object == [shm EXCEPT ![s] = EmptySegment]
<1>1. s \in SegIds /\ \A c \in Backends : gSegment[c] # s
  BY DEF CreateSegment, FreeSegs
<1>2. Segments(s, [gSegment EXCEPT ![b] = s], object)
  BY DEF CreateSegment
<1>3. \A t \in SegIds \ {s} : object[t] = shm[t]
  BY DEF ShmType
<1>. HIDE DEF s, object
<1>. QED
  BY <1>1, <1>2, <1>3 DEF Segments, Kept, ShmType

\* Nothing is lost when the segments stay as they are.
LEMMA KeptUnchanged == ASSUME UNCHANGED shmVars PROVE Kept
BY DEF shmVars, Kept

\* A step of b leaves the others alone, so only b is left to consider.
LEMMA Others ==
  ASSUME NEW b \in Backends, ShmType, \A c \in Backends : Sound(c), Kept,
         \A c \in Backends \ {b} :
           /\ pc'[c] = pc[c]
           /\ gInited'[c] = gInited[c]
           /\ gJiaba'[c] = gJiaba[c]
           /\ gSegment'[c] = gSegment[c],
         Sound(b)'
  PROVE  \A c \in Backends : Sound(c)'
<1>. SUFFICES ASSUME NEW c \in Backends, c # b PROVE Sound(c)'
  OBVIOUS
<1>1. Sound(c)
  OBVIOUS
<1>2. gSegment[c] # None /\ shm[gSegment[c]].units # "absent"
        => shm'[gSegment[c]].units # "absent"
  BY DEF Kept
<1>. QED
  BY <1>1, <1>2 DEF Sound, Mapping, Filled

\* Backends that exit keep nothing, the others lose nothing.
LEMMA ExitSound ==
  ASSUME IInv, NEW gone \in SUBSET Backends, NEW label \in {"idle", "dead"},
         Exit(gone, label)
  PROVE  \A c \in Backends : Sound(c)'
<1>1. Kept
  BY KeptBySegments DEF Exit, IInv, TypeOK
<1>2. \A c \in Backends : IF c \in gone
         THEN pc'[c] = label /\ gInited'[c] = FALSE /\ gJiaba'[c] = None
         ELSE /\ pc'[c] = pc[c] /\ gInited'[c] = gInited[c]
              /\ gJiaba'[c] = gJiaba[c] /\ gSegment'[c] = gSegment[c]
  BY DEF Exit, Segments
<1>. SUFFICES ASSUME NEW c \in Backends PROVE Sound(c)'
  OBVIOUS
<1>3. CASE c \in gone
  BY <1>2, <1>3 DEF Sound, Mapping, Filled
<1>4. CASE c \notin gone
  <2>1. Sound(c)
    BY DEF IInv
  <2>2. gSegment[c] # None /\ shm[gSegment[c]].units # "absent"
          => shm'[gSegment[c]].units # "absent"
    BY <1>1, <1>2, <1>4 DEF Kept
  <2>. QED
    BY <1>2, <1>4, <2>1, <2>2 DEF Sound, Mapping, Filled
<1>. QED
  BY <1>3, <1>4

\* A crash keeps the invariant.
LEMMA DieInv == ASSUME IInv, NEW b \in Backends, Die(b) PROVE IInv'
BY DieType, ExitSound DEF Die, IInv

-----------------------------------------------------------------------------
(* Three shapes of steps: on neither object, on the mutex, on the segment.  *)

\* There is a parser only outside init() and at its very end.
LEMMA NoParser ==
  ASSUME IInv, NEW b \in Backends, pc[b] \notin {"idle", "unlock"}
  PROVE  gJiaba[b] = None
BY DEF IInv, Sound

\* A step of b on neither object.
LEMMA LocalInv ==
  ASSUME IInv, NEW b \in Backends, NEW from, NEW to \in Busy \ {"unlock"},
         Local(b, from, to), gJiaba[b] = None,
         to \in Mapping => from \in Mapping, to \in Filled => from \in Filled,
         gsVsValue' \in [Backends -> Fingerprint],
         dictTrie' \in [Backends -> Content]
  PROVE  IInv'
<1>1. TypeOK'
  BY LocalType DEF IInv
<1>2. Kept
  BY KeptUnchanged DEF Local
<1>3. Sound(b)'
  BY DEF Local, Goto, IInv, Sound, TypeOK, ProcType, shmVars, Busy, Critical
<1>4. \A c \in Backends \ {b} :
           /\ pc'[c] = pc[c]
           /\ gInited'[c] = gInited[c]
           /\ gJiaba'[c] = gJiaba[c]
           /\ gSegment'[c] = gSegment[c]
  BY DEF Local, Goto, IInv, TypeOK, ProcType, shmVars
<1>. QED
  BY <1>1, <1>2, <1>3, <1>4, Others DEF IInv, TypeOK

\* A step of b on the mutex only.
LEMMA LockStepInv ==
  ASSUME IInv, NEW b \in Backends, pc[b] \notin {"idle", "unlock"},
         NEW to \in Busy \ Mapping, LockType', Goto(b, to),
         UNCHANGED <<shmVars, envVars, procVars>>
  PROVE  IInv'
<1>1. TypeOK'
  BY GotoType, UnchangedType DEF IInv, TypeOK
<1>2. Kept
  BY KeptUnchanged
<1>3. Sound(b)'
  BY NoParser
     DEF Goto, IInv, Sound, TypeOK, ProcType, procVars, Busy, Critical, Mapping, Filled
<1>4. \A c \in Backends \ {b} :
           /\ pc'[c] = pc[c]
           /\ gInited'[c] = gInited[c]
           /\ gJiaba'[c] = gJiaba[c]
           /\ gSegment'[c] = gSegment[c]
  BY DEF Goto, IInv, TypeOK, ProcType, shmVars, procVars
<1>. QED
  BY <1>1, <1>2, <1>3, <1>4, Others DEF IInv, TypeOK

\* A step of b on the segments only.
LEMMA ShmStepInv ==
  ASSUME IInv, NEW b \in Backends, pc[b] \notin {"idle", "unlock"},
         NEW to \in Busy \ {"unlock"}, ShmType', Kept,
         \A c \in Backends \ {b} : gSegment'[c] = gSegment[c],
         to \in Mapping => gSegment'[b] # None,
         to \in Filled => shm'[gSegment'[b]].units # "absent",
         Goto(b, to), UNCHANGED <<lockVars, envVars, procVars>>
  PROVE  IInv'
<1>1. TypeOK'
  BY GotoType, UnchangedType DEF IInv, TypeOK
<1>2. Sound(b)'
  BY NoParser
     DEF Goto, IInv, Sound, TypeOK, ProcType, procVars, Busy, Critical
<1>3. \A c \in Backends \ {b} :
           /\ pc'[c] = pc[c]
           /\ gInited'[c] = gInited[c]
           /\ gJiaba'[c] = gJiaba[c]
           /\ gSegment'[c] = gSegment[c]
  BY DEF Goto, IInv, TypeOK, ProcType, procVars
<1>. QED
  BY <1>1, <1>2, <1>3, Others DEF IInv, TypeOK

\* Removing the name SHM_NAME, whatever it stands for.
LEMMA RemoveShmStepInv ==
  ASSUME IInv, NEW b \in Backends, pc[b] \notin {"idle", "unlock"},
         NEW to \in Busy \ Mapping, RemoveShm, Goto(b, to),
         UNCHANGED <<lockVars, envVars, procVars>>
  PROVE  IInv'
<1>1. ShmType' /\ Kept
  BY RemoveShmType, KeptBySegments DEF IInv, TypeOK, RemoveShm
<1>2. gSegment' = gSegment
  BY DEF RemoveShm, Segments
<1>. QED
  BY <1>1, <1>2, ShmStepInv DEF Mapping, Filled

\* Writing to one's own segment.
LEMMA SaveInv ==
  ASSUME IInv, NEW b \in Backends, NEW from \in Mapping \ {"unlock"},
         NEW to \in Busy \ {"unlock"}, NEW segment \in Segment,
         segment.units # "absent", Save(b, from, to, segment)
  PROVE  IInv'
<1>. DEFINE object == [shm EXCEPT ![gSegment[b]] = segment]
<1>1. gSegment[b] \in SegIds
  BY DEF Save, IInv, Sound, TypeOK, ShmType
<1>2. object \in [SegIds -> Segment] /\ object[gSegment[b]] = segment
  BY <1>1 DEF IInv, TypeOK, ShmType
<1>3. Segments(shmName, gSegment, object)
  BY DEF Save
<1>4. ShmType'
  BY <1>2, <1>3, SegmentsType DEF IInv, TypeOK, ShmType
<1>5. \A s \in SegIds : shm[s].units # "absent" => object[s].units # "absent"
  BY DEF IInv, TypeOK, ShmType
<1>6. Kept
  BY <1>3, <1>5, KeptBySegments DEF IInv, TypeOK
<1>7. gSegment' = gSegment /\ shm'[gSegment[b]] = segment
  <2>. HIDE DEF object
  <2>. QED BY <1>1, <1>2, <1>3 DEF Segments
<1>8. pc[b] \notin {"idle", "unlock"}
  BY DEF Save, Mapping
<1>9. gSegment'[b] # None /\ shm'[gSegment'[b]].units # "absent"
  BY <1>1, <1>7, NamesAssumption
<1>. QED
  BY <1>4, <1>6, <1>7, <1>8, <1>9, ShmStepInv DEF Save

\* A save that finds no memory keeps the invariant.
LEMMA BadAllocInv ==
  ASSUME IInv, NEW b \in Backends, NEW from \in Mapping \ {"unlock"},
         BadAlloc(b, from)
  PROVE  IInv'
<1>1. gJiaba[b] = None
  BY NoParser DEF BadAlloc, Mapping
<1>. QED
  BY <1>1, LocalInv
     DEF BadAlloc, IInv, TypeOK, ProcType, Busy, Critical, Mapping, Filled

-----------------------------------------------------------------------------
(* Every step of a backend inside init() keeps the invariant.              *)

\* All steps on the mutex keep the invariant.
LEMMA LockStepsInv ==
  ASSUME IInv, NEW b \in Backends,
         \/ ResetRemoveLock(b) \/ OpenLock(b) \/ AcquireTimed(b) \/ TimeOut(b)
         \/ StealRemoveLock(b) \/ StealReopenLock(b) \/ AcquireBlocking(b)
         \/ Unwind(b) \/ CatchRemoveLock(b)
  PROVE  IInv'
<1>. USE DEF Busy, Critical, Mapping
<1>1. CASE ResetRemoveLock(b)
  BY <1>1, RemoveLockType, LockStepInv DEF ResetRemoveLock, IInv, TypeOK
<1>2. CASE OpenLock(b)
  BY <1>2, OpenOrCreateLockType, LockStepInv DEF OpenLock, IInv, TypeOK
<1>3. ASSUME NEW from \in {"wait", "block"}, Acquire(b, from) PROVE IInv'
  <2>1. LockType'
    BY <1>3, AcquireType DEF IInv, TypeOK
  <2>. QED
    BY <1>3, <2>1, LockStepInv DEF Acquire
<1>4. CASE TimeOut(b)
  <2>1. gJiaba[b] = None
    BY <1>4, NoParser DEF TimeOut
  <2>. QED
    BY <1>4, <2>1, LocalInv DEF TimeOut, IInv, TypeOK, ProcType, Filled
<1>5. CASE StealRemoveLock(b)
  BY <1>5, RemoveLockType, LockStepInv DEF StealRemoveLock, IInv, TypeOK
<1>6. CASE StealReopenLock(b)
  BY <1>6, OpenOrCreateLockType, LockStepInv DEF StealReopenLock, IInv, TypeOK
<1>7. CASE Unwind(b)
  BY <1>7, ReleaseType, LockStepInv DEF Unwind, IInv, TypeOK
<1>8. CASE CatchRemoveLock(b)
  BY <1>8, RemoveLockType, LockStepInv DEF CatchRemoveLock, IInv, TypeOK
<1>. QED
  BY <1>1, <1>2, <1>3, <1>4, <1>5, <1>6, <1>7, <1>8 DEF AcquireTimed, AcquireBlocking

\* _chkShMem, the mapping of the segment, keeps the invariant.
LEMMA MapInv ==
  ASSUME IInv, NEW b \in Backends, MapSegment(b) PROVE IInv'
<1>1. ShmType' /\ Kept /\ gSegment'[b] # None
      /\ \A c \in Backends \ {b} : gSegment'[c] = gSegment[c]
  <2>1. CASE shmName # None
    <3>1. Segments(shmName, [gSegment EXCEPT ![b] = shmName], shm)
      BY <2>1 DEF MapSegment
    <3>2. [gSegment EXCEPT ![b] = shmName] \in [Backends -> SegIds \cup {None}]
      BY DEF IInv, TypeOK, ShmType
    <3>3. ShmType' /\ Kept
      BY <3>1, <3>2, SegmentsType, KeptBySegments DEF IInv, TypeOK, ShmType
    <3>. QED
      BY <2>1, <3>1, <3>3 DEF Segments, IInv, TypeOK, ShmType
  <2>2. CASE shmName = None
    BY <2>2, CreateSegmentType, KeptByCreate, NamesAssumption
       DEF MapSegment, IInv, TypeOK
  <2>. QED
    BY <2>1, <2>2
<1>. QED
  BY <1>1, ShmStepInv DEF MapSegment, Busy, Critical, Filled

\* gSegment.reset() by b, with or without writes to other segments
LEMMA UnmapInv ==
  ASSUME IInv, NEW b \in Backends, pc[b] \notin {"idle", "unlock"},
         NEW to \in Busy \ Mapping, NEW object \in [SegIds -> Segment],
         Segments(shmName, [gSegment EXCEPT ![b] = None], object),
         \A s \in SegIds : shm[s].units # "absent" => object[s].units # "absent",
         Goto(b, to), UNCHANGED <<lockVars, envVars, procVars>>
  PROVE  IInv'
<1>1. [gSegment EXCEPT ![b] = None] \in [Backends -> SegIds \cup {None}]
  BY DEF IInv, TypeOK, ShmType
<1>2. ShmType' /\ Kept
  BY <1>1, SegmentsType, KeptBySegments DEF IInv, TypeOK, ShmType
<1>3. \A c \in Backends \ {b} : gSegment'[c] = gSegment[c]
  BY DEF Segments, IInv, TypeOK, ShmType
<1>. QED
  BY <1>2, <1>3, ShmStepInv DEF Mapping, Filled

\* _chkShMem, the tests: whoever goes on has a dictionary mapped.
LEMMA VerifyInv ==
  ASSUME IInv, NEW b \in Backends, Verify(b) PROVE IInv'
<1>. USE DEF Busy, Critical, Mapping, Filled
<1>1. gSegment[b] # None
  BY DEF Verify, IInv, Sound
<1>2. CASE /\ shm[gSegment[b]].units # "absent"
           /\ Goto(b, "trie") /\ UNCHANGED shmVars
  BY <1>1, <1>2, KeptUnchanged, UnchangedType, ShmStepInv
     DEF Verify, IInv, TypeOK, shmVars
<1>3. CASE /\ Goto(b, "rmStale")
           /\ Segments(shmName, [gSegment EXCEPT ![b] = None], shm)
  BY <1>3, UnmapInv DEF Verify, IInv, TypeOK, ShmType
<1>. QED
  BY <1>2, <1>3 DEF Verify

\* create_only, and its failure, keep the invariant.
LEMMA CreateOnlyInv ==
  ASSUME IInv, NEW b \in Backends, CreateOnly(b) PROVE IInv'
<1>. USE DEF Busy, Critical, Mapping, Filled
<1>1. CASE CreateSegment(b) /\ Goto(b, "load")
  <2>1. ShmType' /\ Kept /\ gSegment'[b] # None
        /\ \A c \in Backends \ {b} : gSegment'[c] = gSegment[c]
    BY <1>1, CreateSegmentType, KeptByCreate, NamesAssumption DEF IInv, TypeOK
  <2>. QED
    BY <1>1, <2>1, ShmStepInv DEF CreateOnly
<1>2. CASE Goto(b, "unwind") /\ UNCHANGED shmVars
  BY <1>2, KeptUnchanged, UnchangedType, ShmStepInv
     DEF CreateOnly, IInv, TypeOK, shmVars
<1>. QED
  BY <1>1, <1>2 DEF CreateOnly

\* Reading the files keeps the invariant.
LEMMA LoadInv ==
  ASSUME IInv, NEW b \in Backends, LoadDict(b) \/ LoadUserDict(b) PROVE IInv'
<1>. USE DEF Busy, Critical, Mapping, Filled
<1>1. CASE Die(b)
  BY <1>1, DieInv
<1>2. ASSUME NEW from, NEW to, <<from, to>> \in {<<"load", "loadUser">>,
                                                 <<"loadUser", "construct">>},
             Local(b, from, to), gsVsValue' = gsVsValue,
             dictTrie' \in [Backends -> Content]
      PROVE  IInv'
  <2>1. gJiaba[b] = None
    BY <1>2, NoParser DEF Local
  <2>. QED
    BY <1>2, <2>1, LocalInv DEF IInv, TypeOK, ProcType
<1>3. files.dict \in Version /\ files.user \in Version
  BY DEF IInv, TypeOK, EnvType, Content
<1>4. CASE LoadDict(b)
  <2>1. [dictTrie EXCEPT ![b].dict = files.dict] \in [Backends -> Content]
    BY <1>3 DEF IInv, TypeOK, ProcType, Content
  <2>2. \/ Die(b)
        \/ /\ Local(b, "load", "loadUser")
           /\ dictTrie' = [dictTrie EXCEPT ![b].dict = files.dict]
           /\ gsVsValue' = gsVsValue
    BY <1>4, Zenon DEF LoadDict
  <2>. QED
    BY <1>1, <1>2, <2>1, <2>2
<1>5. CASE LoadUserDict(b)
  <2>1. [dictTrie EXCEPT ![b] = [dictTrie[b] EXCEPT !.user = files.user]]
           \in [Backends -> Content]
    BY <1>3 DEF IInv, TypeOK, ProcType, Content
  <2>. QED
    BY <1>1, <1>2, <1>5, <2>1 DEF LoadUserDict
<1>. QED
  BY <1>4, <1>5

\* The writes of _saveToShm keep the invariant: a dictionary once there stays.
LEMMA SaveStepsInv ==
  ASSUME IInv, NEW b \in Backends,
         SaveConstruct(b) \/ SaveUnits(b) \/ SaveVersion(b)
  PROVE  IInv'
<1>. DEFINE s == shm[gSegment[b]]
<1>. USE DEF Busy, Critical, Mapping, Filled
<1>1. pc[b] \in {"construct", "fill", "tag"}
  BY DEF SaveConstruct, SaveUnits, SaveVersion, Save, BadAlloc
<1>2. s \in Segment
  BY <1>1 DEF IInv, Sound, TypeOK, ShmType
<1>3. pc[b] = "tag" => s.units # "absent"
  BY DEF IInv, Sound
<1>4. dictTrie[b] \in Content /\ gsVsValue[b] \in Fingerprint
  BY DEF IInv, TypeOK, ProcType
<1>5. CASE SaveConstruct(b)
  <2>1. [s EXCEPT !.units = "filling", !.data = dictTrie[b]] \in Segment
    BY <1>2, <1>4 DEF Segment
  <2>. QED
    BY <1>2, <1>5, <2>1, SaveInv, BadAllocInv DEF SaveConstruct, Segment
<1>6. CASE SaveUnits(b)
  <2>1. [s EXCEPT !.units = "full"] \in Segment
        /\ [s EXCEPT !.units = "torn"] \in Segment
    BY <1>2 DEF Segment
  <2>. QED
    BY <1>2, <1>6, <2>1, SaveInv, BadAllocInv, DieInv DEF SaveUnits, Segment
<1>7. CASE SaveVersion(b)
  <2>. DEFINE to == IF Shrinks THEN "shrink" ELSE "trie"
  <2>1. CASE Save(b, "tag", to, [s EXCEPT !.tag = gsVsValue[b]])
    <3>1. [s EXCEPT !.tag = gsVsValue[b]] \in Segment
      BY <1>2, <1>4 DEF Segment
    <3>2. [s EXCEPT !.tag = gsVsValue[b]].units # "absent"
      BY <1>2, <1>3, <2>1 DEF Save, Segment
    <3>. QED
      BY <2>1, <3>1, <3>2, SaveInv
  <2>. QED
    BY <1>7, <2>1, BadAllocInv DEF SaveVersion
<1>. QED
  BY <1>5, <1>6, <1>7

\* shrink_to_fit keeps the invariant: it unmaps only while there is no parser.
LEMMA ShrinkInv ==
  ASSUME IInv, NEW b \in Backends, Shrink(b) PROVE IInv'
<1>. DEFINE object == [s \in SegIds |->
              IF s = shmName /\ shm[s].tag = None
              THEN [shm[s] EXCEPT !.shrunk = TRUE] ELSE shm[s]]
<1>1. object \in [SegIds -> Segment]
  BY DEF IInv, TypeOK, ShmType, Segment
<1>2. \A s \in SegIds : shm[s].units # "absent" => object[s].units # "absent"
  BY DEF IInv, TypeOK, ShmType, Segment
<1>. QED
  BY <1>1, <1>2, UnmapInv DEF Shrink, Busy, Critical, Mapping

\* Mapping the segment again after shrink_to_fit keeps the invariant.
LEMMA ReopenInv ==
  ASSUME IInv, NEW b \in Backends, ReopenShm(b) PROVE IInv'
<1>. USE DEF Busy, Critical, Mapping, Filled
<1>1. ASSUME pc[b] = "reopenShm", shmName # None, shm[shmName].units # "absent",
             Segments(shmName, [gSegment EXCEPT ![b] = shmName], shm),
             Goto(b, "trie"), UNCHANGED <<lockVars, envVars, procVars>>
      PROVE  IInv'
  <2>1. [gSegment EXCEPT ![b] = shmName] \in [Backends -> SegIds \cup {None}]
    BY DEF IInv, TypeOK, ShmType
  <2>2. ShmType' /\ Kept
    BY <1>1, <2>1, SegmentsType, KeptBySegments DEF IInv, TypeOK, ShmType
  <2>3. /\ gSegment'[b] = shmName
        /\ shm'[shmName] = shm[shmName]
        /\ \A c \in Backends \ {b} : gSegment'[c] = gSegment[c]
    BY <1>1 DEF Segments, IInv, TypeOK, ShmType
  <2>. QED
    BY <1>1, <2>2, <2>3, ShmStepInv
<1>2. CASE Local(b, "reopenShm", "unwind") /\ UNCHANGED <<gsVsValue, dictTrie>>
  <2>1. gJiaba[b] = None
    BY <1>2, NoParser DEF Local
  <2>. QED
    BY <1>2, <2>1, LocalInv DEF IInv, TypeOK, ProcType
<1>. QED
  BY <1>1, <1>2, DieInv DEF ReopenShm

\* The parser is built over the segment that is mapped.
LEMMA BuildTrieInv ==
  ASSUME IInv, NEW b \in Backends, BuildTrie(b) PROVE IInv'
<1>. DEFINE s == shm[gSegment[b]]
            parser == [seg |-> gSegment[b], units |-> s.units, data |-> s.data,
                       singles |-> dictTrie[b].user]
<1>1. pc[b] = "trie" /\ gSegment[b] \in SegIds /\ s \in Segment
      /\ s.units # "absent"
  BY DEF BuildTrie, Local, IInv, Sound, Mapping, Filled, TypeOK, ShmType
<1>2. CASE /\ gJiaba' = [gJiaba EXCEPT ![b] = parser]
           /\ Goto(b, "unlock")
           /\ UNCHANGED <<lockVars, shmVars, envVars, loaded, gInited, gsVsValue,
                          dictTrie>>
  <2>1. parser \in Parser
    BY <1>1 DEF Segment, Parser, IInv, TypeOK, ProcType, Content
  <2>2. parser # None /\ parser.seg = gSegment[b]
    BY <2>1, ParserAssumption
  <2>3. TypeOK'
    <3>1. ProcType'
      BY <1>2, <2>1 DEF IInv, TypeOK, ProcType, Goto, Busy, Critical
    <3>. QED
      BY <1>2, <3>1, UnchangedType DEF IInv, TypeOK
  <2>4. Kept
    BY <1>2, KeptUnchanged
  <2>5. gJiaba'[b] = parser /\ pc'[b] = "unlock" /\ gSegment' = gSegment /\ shm' = shm
    BY <1>2 DEF Goto, shmVars, IInv, TypeOK, ProcType
  <2>6. Sound(b)'
    <3>. HIDE DEF parser
    <3>. QED
      BY <1>1, <2>2, <2>5, NamesAssumption DEF Sound
  <2>7. \A c \in Backends \ {b} :
           /\ pc'[c] = pc[c]
           /\ gInited'[c] = gInited[c]
           /\ gJiaba'[c] = gJiaba[c]
           /\ gSegment'[c] = gSegment[c]
    BY <1>2 DEF Goto, IInv, TypeOK, ProcType, shmVars
  <2>. QED
    BY <2>3, <2>4, <2>6, <2>7, Others DEF IInv, TypeOK
<1>3. CASE Local(b, "trie", "notOK") /\ UNCHANGED <<gsVsValue, dictTrie>>
  BY <1>1, <1>3, NoParser, LocalInv
     DEF IInv, TypeOK, ProcType, Busy, Critical, Mapping, Filled
<1>. QED
  BY <1>2, <1>3, DieInv DEF BuildTrie

\* Steps that leave both objects alone and give b a new flag or parser.
LEMMA EndInv ==
  ASSUME IInv, NEW b \in Backends, TypeOK', UNCHANGED shmVars,
         \A c \in Backends \ {b} :
           /\ pc'[c] = pc[c]
           /\ gInited'[c] = gInited[c]
           /\ gJiaba'[c] = gJiaba[c],
         Sound(b)'
  PROVE  IInv'
BY KeptUnchanged, Others DEF shmVars, IInv, TypeOK

\* Hashing, and the check of its result, keep the invariant.
LEMMA HashInv ==
  ASSUME IInv, NEW b \in Backends,
         (\E f \in {"dict", "user"} : HashFile(b, f)) \/ CheckVersion(b)
  PROVE  IInv'
<1>. USE DEF Busy, Critical, Mapping, Filled
<1>1. gJiaba[b] = None
  BY NoParser DEF HashFile, CheckVersion
<1>2. ASSUME NEW f \in {"dict", "user"}, HashFile(b, f) PROVE IInv'
  <2>1. gsVsValue' \in [Backends -> Fingerprint]
    BY <1>2 DEF HashFile, IInv, TypeOK, EnvType, ProcType, Content, Fingerprint
  <2>2. TypeOK'
    BY <1>2, <2>1, UnchangedType DEF HashFile, IInv, TypeOK, ProcType
  <2>3. Sound(b)'
    BY <1>2 DEF HashFile, IInv, Sound, shmVars
  <2>. QED
    BY <1>2, <2>2, <2>3, EndInv DEF HashFile
<1>3. CASE CheckVersion(b) /\ Fail(b)
  <2>1. TypeOK'
    BY <1>3, FailType, UnchangedType DEF CheckVersion, IInv, TypeOK
  <2>2. Sound(b)'
    BY <1>3 DEF Fail, Goto, IInv, Sound, TypeOK, ProcType
  <2>. QED
    BY <1>3, <2>1, <2>2, EndInv DEF CheckVersion, Fail, Goto, IInv, TypeOK, ProcType
<1>4. CASE CheckVersion(b) /\ Goto(b, "openLock") /\ UNCHANGED <<envVars, procVars>>
  BY <1>4, KeptUnchanged, UnchangedType, ShmStepInv
     DEF CheckVersion, IInv, TypeOK, shmVars
<1>. QED
  BY <1>2, <1>3, <1>4 DEF CheckVersion

\* A successful init() sets gInited with the parser there.
LEMMA FinishInv ==
  ASSUME IInv, NEW b \in Backends, Finish(b) PROVE IInv'
<1>1. TypeOK'
  <2>1. LockType'
    BY ReleaseType DEF Finish, IInv
  <2>2. ProcType'
    BY EmptyType DEF Finish, Goto, IInv, TypeOK, ProcType
  <2>. QED
    BY <2>1, <2>2, UnchangedType DEF Finish, IInv, TypeOK
<1>2. Sound(b)'
  BY DEF Finish, Goto, IInv, Sound, TypeOK, ProcType, shmVars, Mapping, Filled
<1>. QED
  BY <1>1, <1>2, EndInv DEF Finish, Goto, IInv, TypeOK, ProcType

\* GiveUp and CatchRemoveShm end in Fail(b).
LEMMA FailInv ==
  ASSUME IInv, NEW b \in Backends, LockType', ShmType', Kept,
         \A c \in Backends \ {b} : gSegment'[c] = gSegment[c], Fail(b)
  PROVE  IInv'
<1>1. TypeOK'
  BY FailType DEF IInv, TypeOK
<1>2. Sound(b)'
  BY DEF Fail, Goto, IInv, Sound, TypeOK, ProcType, Mapping, Filled
<1>3. \A c \in Backends \ {b} :
           /\ pc'[c] = pc[c]
           /\ gInited'[c] = gInited[c]
           /\ gJiaba'[c] = gJiaba[c]
           /\ gSegment'[c] = gSegment[c]
  BY DEF Fail, Goto, IInv, TypeOK, ProcType
<1>. QED
  BY <1>1, <1>2, <1>3, Others DEF IInv, TypeOK

\* The two ways out that report failure keep the invariant.
LEMMA FailStepsInv ==
  ASSUME IInv, NEW b \in Backends, GiveUp(b) \/ CatchRemoveShm(b) PROVE IInv'
<1>1. CASE GiveUp(b)
  BY <1>1, ReleaseType, UnchangedType, KeptUnchanged, FailInv
     DEF GiveUp, shmVars, IInv, TypeOK
<1>2. CASE CatchRemoveShm(b)
  <2>1. ShmType' /\ Kept /\ gSegment' = gSegment
    BY <1>2, RemoveShmType, KeptBySegments
       DEF CatchRemoveShm, RemoveShm, Segments, IInv, TypeOK
  <2>. QED
    BY <1>2, <2>1, UnchangedType, FailInv DEF CatchRemoveShm, IInv, TypeOK
<1>. QED
  BY <1>1, <1>2

\* Every step inside init() keeps the invariant.
LEMMA StepInv ==
  ASSUME IInv, NEW b \in Backends, Step(b) PROVE IInv'
<1>. USE DEF Busy, Critical, Mapping
<1>1. CASE ResetRemoveShm(b)
  BY <1>1, RemoveShmStepInv DEF ResetRemoveShm
<1>2. CASE RemoveStale(b)
  BY <1>2, RemoveShmStepInv DEF RemoveStale
<1>3. CASE NotOK(b)
  BY <1>3, RemoveShmStepInv DEF NotOK
<1>. QED
  BY <1>1, <1>2, <1>3, LockStepsInv, HashInv, MapInv, VerifyInv, CreateOnlyInv,
     LoadInv, SaveStepsInv, ShrinkInv, ReopenInv, BuildTrieInv, FinishInv,
     FailStepsInv
     DEF Step

-----------------------------------------------------------------------------
(* The surroundings keep it too.                                           *)

\* Entering init() keeps the invariant: a reset drops the parser first.
LEMMA EnterInv ==
  ASSUME IInv, NEW b \in Backends, Start(b) \/ Reset(b) PROVE IInv'
<1>. USE DEF Busy, Critical, Mapping, Filled
<1>1. CASE Start(b)
  <2>1. gJiaba[b] = None
    BY <1>1 DEF Start, Local, IInv, Sound
  <2>2. gsVsValue' \in [Backends -> Fingerprint]
    BY <1>1, EmptyType DEF Start, IInv, TypeOK, ProcType
  <2>3. dictTrie' \in [Backends -> Content]
    BY <1>1 DEF Start, IInv, TypeOK, ProcType
  <2>. QED
    BY <1>1, <2>1, <2>2, <2>3, LocalInv DEF Start
<1>2. CASE Reset(b)
  <2>1. TypeOK'
    <3>1. ProcType'
      BY <1>2, EmptyType DEF Reset, Goto, IInv, TypeOK, ProcType
    <3>2. EnvType'
      BY <1>2, BoundAssumption DEF Reset, IInv, TypeOK, EnvType
    <3>. QED
      BY <1>2, <3>1, <3>2, UnchangedType DEF Reset, IInv, TypeOK
  <2>2. Sound(b)'
    BY <1>2 DEF Reset, Goto, IInv, Sound, TypeOK, ProcType, shmVars
  <2>. QED
    BY <1>2, <2>1, <2>2, EndInv DEF Reset, Goto, IInv, TypeOK, ProcType
<1>. QED
  BY <1>1, <1>2

\* Whatever happens around init() keeps the invariant.
LEMMA SurroundingsInv == ASSUME IInv, Surroundings PROVE IInv'
<1>1. ASSUME NEW b \in Backends, Disconnect(b) PROVE IInv'
  BY <1>1, ExitType, ExitSound, UnchangedType DEF Disconnect, IInv, TypeOK
<1>2. ASSUME NEW b \in Backends, Kill(b) PROVE IInv'
  <2>1. EnvType'
    BY <1>2, BoundAssumption DEF Kill, IInv, TypeOK, EnvType
  <2>. QED
    BY <1>2, <2>1, ExitType, ExitSound DEF Kill, IInv, TypeOK
<1>3. ASSUME NEW c \in Clusters, Restart(c) PROVE IInv'
  BY <1>3, ClusterAssumption, ExitType, ExitSound, UnchangedType
     DEF Restart, IInv, TypeOK
<1>4. ASSUME NEW f \in {"dict", "user"}, ReplaceFile(f) \/ RemoveFile(f)
      PROVE  IInv'
  <2>1. EnvType'
    BY <1>4, BoundAssumption
       DEF ReplaceFile, RemoveFile, IInv, TypeOK, EnvType, Content, Version
  <2>2. UNCHANGED <<lockVars, shmVars, procVars, pc>>
    BY <1>4 DEF ReplaceFile, RemoveFile
  <2>3. TypeOK'
    BY <2>1, <2>2, UnchangedType DEF IInv, TypeOK
  <2>4. \A c \in Backends : Sound(c)'
    BY <2>2 DEF IInv, Sound, shmVars, procVars
  <2>. QED
    BY <2>3, <2>4 DEF IInv
<1>. QED
  BY <1>1, <1>2, <1>3, <1>4, EnterInv DEF Surroundings

\* The invariant holds before the first call.
LEMMA InitInv == Init => IInv
<1>. SUFFICES ASSUME Init PROVE IInv
  OBVIOUS
<1>1. LockType /\ ShmType
  BY EmptyType DEF Init, LockType, ShmType
<1>2. EnvType
  BY BoundAssumption DEF Init, EnvType, Content, Version
<1>3. ProcType
  BY EmptyType DEF Init, ProcType
<1>4. \A b \in Backends : Sound(b)
  BY DEF Init, Sound, Mapping, Filled
<1>. QED
  BY <1>1, <1>2, <1>3, <1>4 DEF IInv, TypeOK

\* The invariant is inductive.
LEMMA NextInv == IInv /\ [Next]_vars => IInv'
<1>. SUFFICES ASSUME IInv, [Next]_vars PROVE IInv'
  OBVIOUS
<1>1. CASE UNCHANGED vars
  <2>1. UNCHANGED <<lockVars, shmVars, envVars, procVars, pc>>
    BY <1>1 DEF vars
  <2>2. TypeOK'
    BY <2>1, UnchangedType DEF IInv, TypeOK
  <2>3. \A c \in Backends : Sound(c)'
    BY <2>1 DEF IInv, Sound, shmVars, procVars
  <2>. QED
    BY <2>2, <2>3 DEF IInv
<1>. QED
  BY <1>1, StepInv, SurroundingsInv DEF Next

-----------------------------------------------------------------------------
(* The theorems.                                                           *)

\* The invariant holds in every reachable state.
LEMMA InvHolds == Spec => []IInv
BY InitInv, NextInv, PTL DEF Spec

\* Every variable stays in its domain; no trie is built over a segment without
\* a dictionary.
THEOREM TypeCorrect == Spec => []TypeOK
<1>1. IInv => TypeOK
  BY DEF IInv
<1>. QED
  BY <1>1, InvHolds, PTL

\* The segment under a parser stays mapped and keeps its dictionary, whatever
\* other backends reset, remove, rebuild or shrink, and whoever dies.
THEOREM ParsersKeepTheirSegment == Spec => []NoDangling
<1>1. IInv => NoDangling
  BY DEF IInv, Sound, NoDangling
<1>. QED
  BY <1>1, InvHolds, PTL

\* Outside init(), gInited is set exactly when there is a parser.
THEOREM FlagTellsTruth == Spec => []FlagMatchesParser
<1>1. IInv => FlagMatchesParser
  BY DEF IInv, Sound, FlagMatchesParser
<1>. QED
  BY <1>1, InvHolds, PTL

-----------------------------------------------------------------------------
(* The mutex.                                                              *)

\* between opening the mutex and owning it
Handled == {"wait", "steal", "reopenLock", "block"}

\* LockDiscipline is not inductive by itself: a backend can only become the owner
\* of a mutex it has open.
LockInv ==
  /\ LockDiscipline
  /\ \A b \in Backends : pc[b] \in Handled => gLock[b] # None

-----------------------------------------------------------------------------
(* Kinds of steps.                                                         *)

\* A step of b that touches no mutex and does not cross the section's border.
LEMMA LockFrame ==
  ASSUME TypeOK, LockInv, NEW b \in Backends, NEW to, Goto(b, to), UNCHANGED lockVars,
         pc[b] \in Critical <=> to \in Critical, to \in Handled => pc[b] \in Handled
  PROVE  LockInv'
<1>1. \A c \in Backends : pc'[c] = IF c = b THEN to ELSE pc[c]
  BY DEF Goto, TypeOK, ProcType
<1>2. lockOwner' = lockOwner /\ gLock' = gLock
  BY DEF lockVars
<1>. QED
  BY <1>1, <1>2 DEF LockInv, LockDiscipline

\* A step of b outside the section that removes the name of the mutex.
LEMMA LockRemoved ==
  ASSUME TypeOK, LockInv, NEW b \in Backends, NEW to, to \notin Critical, Goto(b, to),
         RemoveLock, pc[b] \notin Critical, to \in Handled => pc[b] \in Handled
  PROVE  LockInv'
<1>1. \A c \in Backends : pc'[c] = IF c = b THEN to ELSE pc[c]
  BY DEF Goto, TypeOK, ProcType
<1>2. gLock' = gLock
  BY DEF RemoveLock, Locks
<1>3. \A l \in LockIds : lockOwner'[l] =
        IF l = None \/ \E c \in Backends : gLock[c] = l THEN lockOwner[l] ELSE None
  BY DEF RemoveLock, Locks
<1>. QED
  BY <1>1, <1>2, <1>3, NamesAssumption
     DEF LockInv, LockDiscipline, TypeOK, LockType, Handled

\* A step of b outside the section that opens the mutex, or makes a new one.
LEMMA LockOpened ==
  ASSUME TypeOK, LockInv, NEW b \in Backends, NEW to \in Handled, Goto(b, to),
         OpenOrCreateLock(b), pc[b] \notin Critical
  PROVE  LockInv'
<1>1. \A c \in Backends : pc'[c] = IF c = b THEN to ELSE pc[c]
  BY DEF Goto, TypeOK, ProcType
<1>2. to \notin Critical
  BY DEF Handled, Critical
<1>3. PICK l \in LockIds, owner \in [LockIds -> Backends \cup {None, Dead}] :
        /\ Locks(l, [gLock EXCEPT ![b] = l], owner)
        /\ \A k \in LockIds :
             \/ owner[k] = lockOwner[k]
             \/ owner[k] = None /\ \A c \in Backends : gLock[c] # k
  <2>1. CASE lockName # None
    BY <2>1 DEF OpenOrCreateLock, TypeOK, LockType
  <2>2. CASE lockName = None
    <3>. DEFINE k == CHOOSE x \in FreeLocks : TRUE
    <3>1. k \in LockIds /\ \A c \in Backends : gLock[c] # k
      BY <2>2 DEF OpenOrCreateLock, FreeLocks
    <3>2. Locks(k, [gLock EXCEPT ![b] = k], [lockOwner EXCEPT ![k] = None])
      BY <2>2 DEF OpenOrCreateLock
    <3>3. \A j \in LockIds : [lockOwner EXCEPT ![k] = None][j] =
            IF j = k THEN None ELSE lockOwner[j]
      BY DEF TypeOK, LockType
    <3>4. [lockOwner EXCEPT ![k] = None] \in [LockIds -> Backends \cup {None, Dead}]
      BY DEF TypeOK, LockType
    <3>. HIDE DEF k
    <3>. QED
      BY <3>1, <3>2, <3>3, <3>4
  <2>. QED
    BY <2>1, <2>2
<1>4. \A c \in Backends : gLock'[c] = IF c = b THEN l ELSE gLock[c]
  BY <1>3 DEF Locks, TypeOK, LockType
<1>5. \A k \in LockIds : lockOwner'[k] =
        IF k = l \/ \E c \in Backends : gLock'[c] = k THEN owner[k] ELSE None
  BY <1>3 DEF Locks
<1>6. ASSUME NEW c \in Backends, pc'[c] \in Critical
      PROVE  gLock'[c] # None /\ lockOwner'[gLock'[c]] = c
  <2>1. c # b /\ pc[c] \in Critical
    BY <1>1, <1>2, <1>6
  <2>2. gLock[c] \in LockIds /\ lockOwner[gLock[c]] = c /\ gLock'[c] = gLock[c]
    BY <1>4, <2>1 DEF LockInv, LockDiscipline, TypeOK, LockType
  <2>. QED
    BY <1>3, <1>5, <2>2, NamesAssumption
<1>7. ASSUME NEW k \in LockIds, NEW c \in Backends, lockOwner'[k] = c
      PROVE  pc'[c] \in Critical /\ gLock'[c] = k
  <2>1. lockOwner[k] = c
    BY <1>3, <1>5, <1>7, NamesAssumption
  <2>. QED
    BY <1>1, <1>4, <2>1 DEF LockInv, LockDiscipline
<1>8. ASSUME NEW c \in Backends, pc'[c] \in Handled
      PROVE  gLock'[c] # None
  BY <1>1, <1>3, <1>4, <1>8, NamesAssumption DEF LockInv
<1>. QED
  BY <1>6, <1>7, <1>8 DEF LockInv, LockDiscipline

\* Entering the section.
LEMMA LockAcquired ==
  ASSUME TypeOK, LockInv, NEW b \in Backends, NEW from \in {"wait", "block"},
         Acquire(b, from)
  PROVE  LockInv'
<1>. DEFINE owner == [lockOwner EXCEPT ![gLock[b]] = b]
<1>1. \A c \in Backends : pc'[c] = IF c = b THEN "check" ELSE pc[c]
  BY DEF Acquire, Goto, TypeOK, ProcType
<1>2. gLock[b] \in LockIds /\ gLock' = gLock /\ lockOwner[gLock[b]] = None
  BY DEF Acquire, Locks, LockInv, Handled, TypeOK, LockType
<1>3. \A k \in LockIds : owner[k] = IF k = gLock[b] THEN b ELSE lockOwner[k]
  BY DEF TypeOK, LockType
<1>4. \A k \in LockIds : lockOwner'[k] =
        IF k = lockName \/ \E c \in Backends : gLock[c] = k THEN owner[k] ELSE None
  BY DEF Acquire, Locks
<1>. HIDE DEF owner
<1>. QED
  BY <1>1, <1>2, <1>3, <1>4, NamesAssumption
     DEF LockInv, LockDiscipline, TypeOK, LockType, Critical, Handled

\* Leaving the section.
LEMMA LockReleased ==
  ASSUME TypeOK, LockInv, NEW b \in Backends, NEW to, to \notin Critical \cup Handled,
         Goto(b, to), pc[b] \in Critical, Release(b)
  PROVE  LockInv'
<1>. DEFINE owner == [lockOwner EXCEPT ![gLock[b]] = None]
<1>1. \A c \in Backends : pc'[c] = IF c = b THEN to ELSE pc[c]
  BY DEF Goto, TypeOK, ProcType
<1>2. gLock[b] \in LockIds /\ lockOwner[gLock[b]] = b
  BY DEF LockInv, LockDiscipline, TypeOK, LockType
<1>3. \A c \in Backends : gLock'[c] = IF c = b THEN None ELSE gLock[c]
  BY DEF Release, Locks, TypeOK, LockType
<1>4. \A k \in LockIds : owner[k] = IF k = gLock[b] THEN None ELSE lockOwner[k]
  BY DEF TypeOK, LockType
<1>5. \A k \in LockIds : lockOwner'[k] =
        IF k = lockName \/ \E c \in Backends : gLock'[c] = k THEN owner[k] ELSE None
  BY DEF Release, Locks
<1>. HIDE DEF owner
<1>. QED
  BY <1>1, <1>2, <1>3, <1>4, <1>5, NamesAssumption
     DEF LockInv, LockDiscipline, TypeOK, LockType

\* The end of processes: what they owned stays owned by nobody.
LEMMA LockExit ==
  ASSUME TypeOK, LockInv, NEW gone \in SUBSET Backends, NEW label \in {"idle", "dead"},
         Exit(gone, label)
  PROVE  LockInv'
<1>. DEFINE owner == [l \in LockIds |-> IF lockOwner[l] \in gone THEN Dead ELSE lockOwner[l]]
<1>1. \A c \in Backends : /\ pc'[c] = IF c \in gone THEN label ELSE pc[c]
                          /\ gLock'[c] = IF c \in gone THEN None ELSE gLock[c]
  BY DEF Exit, Locks
<1>2. \A k \in LockIds : lockOwner'[k] =
        IF k = lockName \/ \E c \in Backends : gLock'[c] = k THEN owner[k] ELSE None
  BY DEF Exit, Locks
<1>3. \A k \in LockIds : owner[k] = IF lockOwner[k] \in gone THEN Dead ELSE lockOwner[k]
  OBVIOUS
<1>. HIDE DEF owner
<1>. QED
  BY <1>1, <1>2, <1>3, NamesAssumption
     DEF LockInv, LockDiscipline, TypeOK, LockType, Critical, Handled

-----------------------------------------------------------------------------
(* The steps.                                                              *)

\* Steps on the mutex.
LEMMA LockStepsLockInv ==
  ASSUME TypeOK, LockInv, NEW b \in Backends,
         \/ ResetRemoveLock(b) \/ OpenLock(b) \/ AcquireTimed(b)
         \/ StealRemoveLock(b) \/ StealReopenLock(b) \/ AcquireBlocking(b)
         \/ Finish(b) \/ GiveUp(b) \/ Unwind(b) \/ CatchRemoveLock(b)
  PROVE  LockInv'
<1>. USE DEF Critical, Handled
<1>1. CASE ResetRemoveLock(b) \/ StealRemoveLock(b) \/ CatchRemoveLock(b)
  BY <1>1, LockRemoved DEF ResetRemoveLock, StealRemoveLock, CatchRemoveLock
<1>2. CASE OpenLock(b) \/ StealReopenLock(b)
  BY <1>2, LockOpened DEF OpenLock, StealReopenLock
<1>3. CASE AcquireTimed(b) \/ AcquireBlocking(b)
  BY <1>3, LockAcquired DEF AcquireTimed, AcquireBlocking
<1>4. CASE Finish(b) \/ GiveUp(b) \/ Unwind(b)
  BY <1>4, LockReleased DEF Finish, GiveUp, Fail, Unwind
<1>. QED
  BY <1>1, <1>2, <1>3, <1>4

\* Steps inside init() that do not touch the mutex.
LEMMA OtherStepsLockInv ==
  ASSUME TypeOK, LockInv, NEW b \in Backends,
         \/ ResetRemoveShm(b)
         \/ \E f \in {"dict", "user"} : HashFile(b, f)
         \/ CheckVersion(b) \/ TimeOut(b)
         \/ MapSegment(b) \/ Verify(b) \/ RemoveStale(b) \/ CreateOnly(b)
         \/ LoadDict(b) \/ LoadUserDict(b)
         \/ SaveConstruct(b) \/ SaveUnits(b) \/ SaveVersion(b)
         \/ Shrink(b) \/ ReopenShm(b) \/ BuildTrie(b)
         \/ NotOK(b) \/ CatchRemoveShm(b)
  PROVE  LockInv'
<1>. USE DEF Critical, Handled
<1>0. CASE Die(b)
  BY <1>0, LockExit DEF Die
<1>1. CASE ResetRemoveShm(b) \/ NotOK(b) \/ CatchRemoveShm(b) \/ CheckVersion(b)
  BY <1>1, LockFrame DEF ResetRemoveShm, NotOK, CatchRemoveShm, CheckVersion, Fail
<1>2. ASSUME NEW f \in {"dict", "user"}, HashFile(b, f) PROVE LockInv'
  BY <1>2 DEF HashFile, LockInv, LockDiscipline, lockVars
<1>3. CASE TimeOut(b)
  BY <1>3, LockFrame DEF TimeOut, Local
<1>4. CASE MapSegment(b) \/ Verify(b) \/ RemoveStale(b) \/ CreateOnly(b) \/ Shrink(b)
  BY <1>4, LockFrame DEF MapSegment, Verify, RemoveStale, CreateOnly, Shrink
<1>5. CASE LoadDict(b) \/ LoadUserDict(b)
  BY <1>0, <1>5, LockFrame DEF LoadDict, LoadUserDict, Local
<1>6. CASE SaveConstruct(b) \/ SaveUnits(b) \/ SaveVersion(b)
  BY <1>0, <1>6, LockFrame
     DEF SaveConstruct, SaveUnits, SaveVersion, Save, BadAlloc, Local
<1>7. CASE ReopenShm(b) \/ BuildTrie(b)
  BY <1>0, <1>7, LockFrame DEF ReopenShm, BuildTrie, Local
<1>. QED
  BY <1>1, <1>2, <1>3, <1>4, <1>5, <1>6, <1>7

\* Everything around init().
LEMMA SurroundingsLockInv == ASSUME TypeOK, LockInv, Surroundings PROVE LockInv'
<1>1. ASSUME NEW b \in Backends, Start(b) \/ Reset(b) PROVE LockInv'
  BY <1>1, LockFrame DEF Start, Reset, Local, Critical, Handled
<1>2. ASSUME NEW b \in Backends, Disconnect(b) \/ Kill(b) PROVE LockInv'
  BY <1>2, LockExit DEF Disconnect, Kill
<1>3. ASSUME NEW c \in Clusters, Restart(c) PROVE LockInv'
  BY <1>3, LockExit, ClusterAssumption DEF Restart
<1>4. ASSUME NEW f \in {"dict", "user"}, ReplaceFile(f) \/ RemoveFile(f)
      PROVE  LockInv'
  BY <1>4 DEF ReplaceFile, RemoveFile, LockInv, LockDiscipline, lockVars
<1>. QED
  BY <1>1, <1>2, <1>3, <1>4 DEF Surroundings

\* The invariant is inductive, given the types.
LEMMA NextLockInv == TypeOK /\ LockInv /\ [Next]_vars => LockInv'
<1>1. ASSUME LockInv, UNCHANGED vars PROVE LockInv'
  BY <1>1 DEF LockInv, LockDiscipline, vars, lockVars
<1>2. ASSUME TypeOK, LockInv, NEW b \in Backends, Step(b) PROVE LockInv'
  BY <1>2, LockStepsLockInv, OtherStepsLockInv DEF Step
<1>. QED
  BY <1>1, <1>2, SurroundingsLockInv DEF Next

\* The invariant holds before the first call.
LEMMA InitLockInv == Init => LockInv
BY NamesAssumption DEF Init, LockInv, LockDiscipline, Critical, Handled

\* A backend inside the critical section owns the mutex it has open, a backend
\* outside owns none: no way out of init_jieba_share, the exception and the
\* death of the process included, leaves a mutex with a live owner behind.
THEOREM MutexHeldInside == Spec => []LockDiscipline
<1>1. LockInv => LockDiscipline
  BY DEF LockInv
<1>. QED
  BY <1>1, InitLockInv, NextLockInv, TypeCorrect, PTL DEF Spec

-----------------------------------------------------------------------------
(* The files only grow newer as long as none is removed: what a backend has *)
(* hashed and what it has loaded can be ordered.                            *)

\* past the check of the version string
Beyond == Busy \ {"rmLock", "rmShm", "hash"}

\* between making a segment and writing its version string
Build  == {"load", "loadUser", "construct", "fill", "tag"}
Loaded == {"construct", "fill", "tag"}

FilesTrue ==
  \A f \in {"dict", "user"} :
    /\ files[f] \in 1..version
    /\ \A b \in Backends : gsVsValue[b][f] # None => gsVsValue[b][f] \in 1..files[f]

LoadedAfterHash(b) ==
  /\ pc[b] \in Beyond => Hashed(b)
  /\ pc[b] \in Loaded \cup {"loadUser"} =>
       gsVsValue[b].dict <= dictTrie[b].dict /\ dictTrie[b].dict <= files.dict
  /\ pc[b] \in Loaded =>
       gsVsValue[b].user <= dictTrie[b].user /\ dictTrie[b].user <= files.user

FilesInv == FilesTrue /\ \A b \in Backends : LoadedAfterHash(b)

\* A step of b that neither hashes nor loads.
LEMMA FilesFrame ==
  ASSUME TypeOK, FilesInv, NEW b \in Backends, NEW to, Goto(b, to),
         UNCHANGED <<files, version, gsVsValue>>,
         \A c \in Backends : c # b \/ to \in Loaded \cup {"loadUser"} =>
           dictTrie'[c] = dictTrie[c],
         to \in Beyond => Hashed(b),
         to \in Loaded \cup {"loadUser"} => pc[b] \in Loaded \cup {"loadUser"},
         to \in Loaded => pc[b] \in Loaded
  PROVE  FilesInv'
<1>1. \A c \in Backends : pc'[c] = IF c = b THEN to ELSE pc[c]
  BY DEF Goto, TypeOK, ProcType
<1>2. FilesTrue'
  BY DEF FilesInv, FilesTrue
<1>3. \A c \in Backends : LoadedAfterHash(c)'
  BY <1>1 DEF FilesInv, LoadedAfterHash, Hashed
<1>. QED
  BY <1>2, <1>3 DEF FilesInv

\* Processes that end have hashed and loaded nothing.
LEMMA FilesExit ==
  ASSUME TypeOK, FilesInv, NEW gone \in SUBSET Backends, NEW label \in {"idle", "dead"},
         Exit(gone, label), UNCHANGED <<files, version>>
  PROVE  FilesInv'
<1>1. \A c \in Backends : IF c \in gone
        THEN pc'[c] = label /\ gsVsValue'[c] = NotHashed
        ELSE pc'[c] = pc[c] /\ gsVsValue'[c] = gsVsValue[c] /\ dictTrie'[c] = dictTrie[c]
  BY DEF Exit
<1>2. FilesTrue'
  BY <1>1 DEF FilesInv, FilesTrue, NotHashed
<1>3. \A c \in Backends : LoadedAfterHash(c)'
  BY <1>1 DEF FilesInv, LoadedAfterHash, Hashed, Beyond, Busy, Critical, Loaded
<1>. QED
  BY <1>2, <1>3 DEF FilesInv

\* A version hashed is one of the file at some time.
LEMMA FilesHash ==
  ASSUME TypeOK, FilesInv, NEW b \in Backends, NEW f \in {"dict", "user"}, HashFile(b, f)
  PROVE  FilesInv'
<1>1. \A c \in Backends, g \in {"dict", "user"} :
        gsVsValue'[c][g] = IF c = b /\ g = f THEN files[f] ELSE gsVsValue[c][g]
  BY DEF HashFile, TypeOK, ProcType, Fingerprint
<1>2. pc[b] = "hash" /\ pc' = pc /\ files' = files /\ version' = version
      /\ dictTrie' = dictTrie /\ \A c \in Backends \ {b} : gsVsValue'[c] = gsVsValue[c]
  BY DEF HashFile, envVars, TypeOK, ProcType
<1>3. FilesTrue'
  BY <1>1, <1>2 DEF FilesInv, FilesTrue
<1>4. \A c \in Backends : LoadedAfterHash(c)'
  BY <1>2 DEF FilesInv, LoadedAfterHash, Hashed, Beyond, Loaded
<1>. QED
  BY <1>3, <1>4 DEF FilesInv

\* What is loaded is no older than what was hashed.
LEMMA FilesLoad ==
  ASSUME TypeOK, FilesInv, NEW b \in Backends, LoadDict(b) \/ LoadUserDict(b)
  PROVE  FilesInv'
<1>1. CASE Die(b)
  BY <1>1, FilesExit DEF Die, envVars
<1>2. ASSUME NEW from, NEW to, NEW f \in {"dict", "user"},
             <<from, to, f>> \in {<<"load", "loadUser", "dict">>,
                                  <<"loadUser", "construct", "user">>},
             Local(b, from, to), gsVsValue' = gsVsValue,
             dictTrie' = [dictTrie EXCEPT ![b] = [dictTrie[b] EXCEPT ![f] = files[f]]]
      PROVE  FilesInv'
  <2>1. \A c \in Backends : pc'[c] = IF c = b THEN to ELSE pc[c]
    BY <1>2 DEF Local, Goto, TypeOK, ProcType
  <2>2. pc[b] = from /\ files' = files /\ version' = version
    BY <1>2 DEF Local, envVars
  <2>3. \A c \in Backends, g \in {"dict", "user"} :
          dictTrie'[c][g] = IF c = b /\ g = f THEN files[f] ELSE dictTrie[c][g]
    BY <1>2 DEF TypeOK, ProcType, Content
  <2>4. Hashed(b) /\ files.dict \in Nat /\ files.user \in Nat
    BY <1>2, <2>2 DEF FilesInv, LoadedAfterHash, Beyond, Busy, Critical, TypeOK, EnvType, Content, Version
  <2>5. FilesTrue'
    BY <1>2, <2>2 DEF FilesInv, FilesTrue
  <2>6. ASSUME NEW c \in Backends, c # b PROVE LoadedAfterHash(c)'
    <3>1. /\ dictTrie'[c].dict = dictTrie[c].dict /\ dictTrie'[c].user = dictTrie[c].user
      BY <2>3, <2>6
    <3>. QED
      BY <1>2, <2>1, <2>2, <2>6, <3>1 DEF FilesInv, LoadedAfterHash, Hashed
  <2>7. LoadedAfterHash(b)'
    <3>1. gsVsValue[b].dict <= files.dict /\ gsVsValue[b].user <= files.user
      BY <2>4 DEF FilesInv, FilesTrue, Hashed
    <3>2. LoadedAfterHash(b)
      BY DEF FilesInv
    <3>3. CASE f = "dict"
      BY <1>2, <2>1, <2>2, <2>3, <2>4, <3>1, <3>3 DEF LoadedAfterHash, Loaded, Hashed
    <3>4. CASE f = "user"
      BY <1>2, <2>1, <2>2, <2>3, <2>4, <3>1, <3>2, <3>4 DEF LoadedAfterHash, Loaded, Hashed
    <3>. QED
      BY <3>3, <3>4
  <2>. QED
    BY <2>5, <2>6, <2>7 DEF FilesInv
<1>3. CASE LoadDict(b)
  <2>1. \/ Die(b)
        \/ /\ Local(b, "load", "loadUser")
           /\ dictTrie' = [dictTrie EXCEPT ![b].dict = files.dict]
           /\ gsVsValue' = gsVsValue
    BY <1>3, Zenon DEF LoadDict
  <2>. QED
    BY <1>1, <1>2, <2>1
<1>4. CASE LoadUserDict(b)
  BY <1>1, <1>2, <1>4 DEF LoadUserDict
<1>. QED
  BY <1>3, <1>4

\* Steps inside init() that neither hash nor load.
LEMMA FilesOtherSteps ==
  ASSUME TypeOK, FilesInv, NEW b \in Backends, Step(b),
         ~\E f \in {"dict", "user"} : HashFile(b, f),
         ~LoadDict(b), ~LoadUserDict(b)
  PROVE  FilesInv'
<1>. USE DEF Busy, Critical, Loaded, Beyond
<1>0. CASE Die(b)
  BY <1>0, FilesExit DEF Die, envVars
<1>1. ASSUME NEW to \in Busy, Goto(b, to), UNCHANGED <<files, version, gsVsValue, dictTrie>>,
             to \in Beyond => Hashed(b),
             to \notin {"load", "loadUser", "construct"},
             to = "fill" => pc[b] = "construct",
             to = "tag" => pc[b] = "fill"
      PROVE  FilesInv'
  BY <1>1, FilesFrame
<1>2. pc[b] \in Beyond => Hashed(b)
  BY DEF FilesInv, LoadedAfterHash
<1>3. CASE \/ ResetRemoveLock(b) \/ ResetRemoveShm(b)
           \/ OpenLock(b) \/ AcquireTimed(b) \/ TimeOut(b)
           \/ StealRemoveLock(b) \/ StealReopenLock(b) \/ AcquireBlocking(b)
  BY <1>1, <1>2, <1>3
     DEF ResetRemoveLock, ResetRemoveShm, OpenLock, AcquireTimed, TimeOut,
         StealRemoveLock, StealReopenLock, AcquireBlocking, Acquire, Local,
         envVars, procVars
<1>4. CASE MapSegment(b) \/ Verify(b) \/ RemoveStale(b) \/ Shrink(b)
           \/ NotOK(b) \/ Unwind(b) \/ CatchRemoveLock(b)
  BY <1>1, <1>2, <1>4
     DEF MapSegment, Verify, RemoveStale, Shrink, NotOK, Unwind,
         CatchRemoveLock, envVars, procVars
<1>5. CASE CreateOnly(b)
  BY <1>2, <1>5, FilesFrame DEF CreateOnly, envVars, procVars
<1>6. CASE SaveConstruct(b) \/ SaveUnits(b) \/ SaveVersion(b)
  BY <1>0, <1>1, <1>2, <1>6
     DEF SaveConstruct, SaveUnits, SaveVersion, Save, BadAlloc, Local, envVars, procVars
<1>7. CASE ReopenShm(b) \/ BuildTrie(b)
  BY <1>0, <1>1, <1>2, <1>7 DEF ReopenShm, BuildTrie, Local, envVars, procVars
<1>8. ASSUME Goto(b, "idle"), UNCHANGED <<files, version, gsVsValue>>,
             \A c \in Backends : c # b => dictTrie'[c] = dictTrie[c]
      PROVE  FilesInv'
  BY <1>8, FilesFrame
<1>9. CASE Finish(b) \/ GiveUp(b) \/ CatchRemoveShm(b)
  BY <1>8, <1>9 DEF Finish, GiveUp, CatchRemoveShm, Fail, envVars, TypeOK, ProcType
<1>10. CASE CheckVersion(b)
  <2>1. CASE Fail(b)
    BY <1>8, <2>1 DEF Fail, envVars, TypeOK, ProcType
  <2>2. CASE Goto(b, "openLock") /\ UNCHANGED <<envVars, procVars>>
    BY <1>1, <1>10, <2>2 DEF CheckVersion, envVars, procVars
  <2>. QED
    BY <1>10, <2>1, <2>2 DEF CheckVersion
<1>. QED
  BY <1>3, <1>4, <1>5, <1>6, <1>7, <1>9, <1>10 DEF Step

\* The surroundings: a file is only replaced by a newer one.
LEMMA FilesSurroundings ==
  ASSUME TypeOK, FilesInv, Surroundings, ~FilesVanish PROVE FilesInv'
<1>. USE DEF Busy, Critical, Loaded, Beyond
<1>1. ASSUME NEW b \in Backends, Start(b) \/ Reset(b) PROVE FilesInv'
  <2>1. PICK to \in {"hash", "rmLock"} : Goto(b, to)
    BY <1>1 DEF Start, Reset, Local
  <2>2. \A c \in Backends : pc'[c] = IF c = b THEN to ELSE pc[c]
    BY <2>1 DEF Goto, TypeOK, ProcType
  <2>3. \A c \in Backends : gsVsValue'[c] = IF c = b THEN NotHashed ELSE gsVsValue[c]
    BY <1>1 DEF Start, Reset, TypeOK, ProcType
  <2>4. dictTrie' = dictTrie /\ files' = files /\ version' = version
    BY <1>1 DEF Start, Reset, Local, envVars
  <2>5. FilesTrue'
    BY <2>3, <2>4 DEF FilesInv, FilesTrue, NotHashed
  <2>6. \A c \in Backends : LoadedAfterHash(c)'
    BY <2>2, <2>3, <2>4 DEF FilesInv, LoadedAfterHash, Hashed
  <2>. QED
    BY <2>5, <2>6 DEF FilesInv
<1>2. ASSUME NEW b \in Backends, Disconnect(b) \/ Kill(b) PROVE FilesInv'
  BY <1>2, FilesExit DEF Disconnect, Kill, envVars
<1>3. ASSUME NEW c \in Clusters, Restart(c) PROVE FilesInv'
  BY <1>3, ClusterAssumption, FilesExit DEF Restart, envVars
<1>4. ASSUME NEW f \in {"dict", "user"}, ReplaceFile(f) PROVE FilesInv'
  <2>1. /\ version \in Nat /\ version' = version + 1
        /\ \A g \in {"dict", "user"} :
             files'[g] = IF g = f THEN version + 1 ELSE files[g]
    BY <1>4 DEF ReplaceFile, TypeOK, EnvType, Version, Content
  <2>2. UNCHANGED <<pc, gsVsValue, dictTrie>>
    BY <1>4 DEF ReplaceFile, procVars
  <2>3. \A g \in {"dict", "user"} : files[g] \in Nat /\ files[g] <= files'[g]
          /\ files'[g] \in 1..version'
    BY <2>1 DEF FilesInv, FilesTrue
  <2>4. FilesTrue'
    BY <2>2, <2>3 DEF FilesInv, FilesTrue
  <2>5. ASSUME NEW c \in Backends PROVE LoadedAfterHash(c)'
    <3>1. dictTrie[c].dict \in Nat /\ dictTrie[c].user \in Nat
      BY DEF TypeOK, ProcType, Content, Version
    <3>2. LoadedAfterHash(c)
      BY DEF FilesInv
    <3>. QED
      BY <2>2, <2>3, <3>1, <3>2 DEF LoadedAfterHash, Hashed
  <2>. QED
    BY <2>4, <2>5 DEF FilesInv
<1>. QED
  BY <1>1, <1>2, <1>3, <1>4 DEF Surroundings, RemoveFile

\* The invariant is inductive while no file is removed.
LEMMA NextFilesInv == ~FilesVanish /\ TypeOK /\ FilesInv /\ [Next]_vars => FilesInv'
<1>1. ASSUME FilesInv, UNCHANGED vars PROVE FilesInv'
  BY <1>1 DEF FilesInv, FilesTrue, LoadedAfterHash, Hashed, vars, envVars, procVars
<1>2. ASSUME TypeOK, FilesInv, NEW b \in Backends, Step(b) PROVE FilesInv'
  BY <1>2, FilesHash, FilesLoad, FilesOtherSteps
<1>. QED
  BY <1>1, <1>2, FilesSurroundings DEF Next

-----------------------------------------------------------------------------
(* Without shrink_to_fit a segment is written by one builder only, and never *)
(* after its version string.                                                *)

Segs ==
  \A s \in SegIds :
    /\ ~shm[s].shrunk
    /\ shm[s].tag # None => shm[s].units = "full"
    /\ s \in FreeSegs => shm[s] = EmptySegment

Builder(b) ==
  /\ pc[b] \notin {"shrink", "reopenShm"}
  /\ pc[b] \in Build => shm[gSegment[b]].tag = None
  /\ pc[b] = "tag" => shm[gSegment[b]].units = "full"
  /\ pc[b] = "trie" => shm[gSegment[b]].tag # None
  /\ gJiaba[b] # None => gJiaba[b].units = "full"

Alone == \A a, b \in Backends :
  pc[a] \in Build /\ pc[b] \in Build /\ a # b => gSegment[a] # gSegment[b]

BuildInv == Segs /\ Alone /\ \A b \in Backends : Builder(b)

\* what PublishedImmutable says of one step
Immutable ==
  \A s \in SegIds : shm[s].tag # None /\ (\E b \in Backends : gSegment'[b] = s)
                      => shm'[s] = shm[s]

\* nobody else writes to a segment that is being built or read
HandsOff ==
  \A b \in Backends :
    pc[b] \in Build \cup {"trie"} /\ pc'[b] = pc[b] /\ gSegment'[b] = gSegment[b]
      => shm'[gSegment[b]] = shm[gSegment[b]]

\* Objects out of use are empty, so Segs is about the objects that are set.
LEMMA SegsBySegments ==
  ASSUME NEW name, NEW map, NEW object, Segments(name, map, object),
         \A s \in SegIds : ~object[s].shrunk
                             /\ (object[s].tag # None => object[s].units = "full")
  PROVE  Segs'
<1>. SUFFICES ASSUME NEW s \in SegIds
              PROVE  /\ ~shm'[s].shrunk
                     /\ shm'[s].tag # None => shm'[s].units = "full"
                     /\ (s \in FreeSegs)' => shm'[s] = EmptySegment
  BY DEF Segs
<1>1. shm'[s] = IF s = shmName' \/ \E c \in Backends : gSegment'[c] = s
                THEN object[s] ELSE EmptySegment
  BY DEF Segments
<1>2. (s \in FreeSegs)' => shm'[s] = EmptySegment
  BY <1>1 DEF FreeSegs
<1>3. ~EmptySegment.shrunk /\ EmptySegment.tag = None
  BY DEF EmptySegment
<1>. QED
  BY <1>1, <1>2, <1>3

\* A step of b that leaves alone the others and what they build or read.
LEMMA BuildOthers ==
  ASSUME BuildInv, NEW b \in Backends, Segs',
         \A c \in Backends \ {b} :
           /\ pc'[c] = pc[c] /\ gJiaba'[c] = gJiaba[c] /\ gSegment'[c] = gSegment[c]
           /\ pc[c] \in Build \cup {"trie"} => shm'[gSegment[c]] = shm[gSegment[c]],
         pc'[b] \in Build =>
           \A c \in Backends \ {b} : pc[c] \in Build => gSegment'[b] # gSegment[c],
         Builder(b)'
  PROVE  BuildInv'
<1>1. ASSUME NEW c \in Backends \ {b} PROVE Builder(c)'
  BY <1>1 DEF BuildInv, Builder, Build
<1>2. Alone'
  BY DEF BuildInv, Alone
<1>. QED
  BY <1>1, <1>2 DEF BuildInv

\* A step of b on no segment.
LEMMA BuildQuiet ==
  ASSUME TypeOK, BuildInv, NEW b \in Backends, NEW to, Goto(b, to), UNCHANGED shmVars,
         to \notin {"shrink", "reopenShm", "tag"},
         to \in Build => pc[b] \in Build,
         to = "trie" => shm[gSegment[b]].tag # None,
         \A c \in Backends \ {b} : gJiaba'[c] = gJiaba[c],
         gJiaba'[b] # None => gJiaba'[b].units = "full"
  PROVE  BuildInv' /\ Immutable /\ HandsOff
<1>1. \A c \in Backends : pc'[c] = IF c = b THEN to ELSE pc[c]
  BY DEF Goto, TypeOK, ProcType
<1>2. shm' = shm /\ gSegment' = gSegment /\ shmName' = shmName
  BY DEF shmVars
<1>3. Segs'
  BY <1>2 DEF BuildInv, Segs, FreeSegs
<1>4. Builder(b)'
  BY <1>1, <1>2 DEF BuildInv, Builder
<1>5. to \in Build =>
        \A c \in Backends \ {b} : pc[c] \in Build => gSegment[b] # gSegment[c]
  BY DEF BuildInv, Alone
<1>. QED
  BY <1>1, <1>2, <1>3, <1>4, <1>5, BuildOthers DEF Immutable, HandsOff

\* A step of b on the names and its own mapping: no content changes.
LEMMA BuildMove ==
  ASSUME IInv, BuildInv, NEW b \in Backends, NEW to, Goto(b, to),
         to \notin Build \cup {"shrink", "reopenShm", "trie"},
         NEW name, NEW map, Segments(name, map, shm),
         \A c \in Backends \ {b} : map[c] = gSegment[c] /\ gJiaba'[c] = gJiaba[c],
         gJiaba'[b] # None => gJiaba'[b].units = "full"
  PROVE  BuildInv' /\ Immutable /\ HandsOff
<1>1. \A c \in Backends : pc'[c] = IF c = b THEN to ELSE pc[c]
  BY DEF Goto, IInv, TypeOK, ProcType
<1>2. Segs'
  BY SegsBySegments DEF BuildInv, Segs
<1>3. \A c \in Backends : gSegment'[c] = map[c]
  BY DEF Segments
<1>4. \A s \in SegIds : (\E c \in Backends : gSegment'[c] = s) => shm'[s] = shm[s]
  BY DEF Segments
<1>5. \A c \in Backends \ {b} : pc[c] \in Build \cup {"trie"} =>
        gSegment[c] \in SegIds /\ shm'[gSegment[c]] = shm[gSegment[c]]
  BY <1>3, <1>4 DEF IInv, Sound, Build, Mapping, TypeOK, ShmType
<1>6. Builder(b)'
  BY <1>1 DEF Builder, Build
<1>7. BuildInv'
  BY <1>1, <1>2, <1>3, <1>5, <1>6, BuildOthers
<1>. QED
  BY <1>1, <1>4, <1>5, <1>7 DEF Immutable, HandsOff

\* A new segment is one that nobody uses.
LEMMA BuildCreate ==
  ASSUME IInv, BuildInv, NEW b \in Backends, NEW to \in {"verify", "load"}, Goto(b, to),
         CreateSegment(b), gJiaba' = gJiaba
  PROVE  BuildInv' /\ Immutable /\ HandsOff
<1>. DEFINE s == CHOOSE x \in FreeSegs : TRUE
            object == [shm EXCEPT ![s] = EmptySegment]
            map == [gSegment EXCEPT ![b] = s]
<1>1. \A c \in Backends : pc'[c] = IF c = b THEN to ELSE pc[c]
  BY DEF Goto, IInv, TypeOK, ProcType
<1>2. s \in SegIds /\ s \in FreeSegs /\ \A c \in Backends : gSegment[c] # s
  BY DEF CreateSegment, FreeSegs
<1>3. shm[s] = EmptySegment
  BY <1>2 DEF BuildInv, Segs
<1>4. object = shm
  BY <1>3 DEF IInv, TypeOK, ShmType
<1>5. Segments(s, map, shm)
  BY <1>4 DEF CreateSegment
<1>6. \A c \in Backends : map[c] = IF c = b THEN s ELSE gSegment[c]
  BY DEF IInv, TypeOK, ShmType
<1>. HIDE DEF s, object, map
<1>7. Segs'
  BY <1>5, SegsBySegments DEF BuildInv, Segs
<1>8. \A c \in Backends : gSegment'[c] = IF c = b THEN s ELSE gSegment[c]
  BY <1>5, <1>6 DEF Segments
<1>9. \A r \in SegIds : (\E c \in Backends : gSegment'[c] = r) => shm'[r] = shm[r]
  BY <1>5 DEF Segments
<1>10. \A c \in Backends \ {b} : pc[c] \in Build \cup {"trie"} =>
        gSegment[c] \in SegIds /\ shm'[gSegment[c]] = shm[gSegment[c]]
  BY <1>8, <1>9 DEF IInv, Sound, Build, Mapping, TypeOK, ShmType
<1>11. Builder(b)'
  <2>1. shm'[gSegment'[b]] = EmptySegment /\ EmptySegment.tag = None
    BY <1>2, <1>3, <1>8, <1>9 DEF EmptySegment
  <2>2. gJiaba'[b] # None => gJiaba'[b].units = "full"
    BY DEF BuildInv, Builder
  <2>. QED
    BY <1>1, <2>1, <2>2 DEF Builder
<1>12. BuildInv'
  BY <1>1, <1>2, <1>7, <1>8, <1>10, <1>11, BuildOthers
<1>. QED
  BY <1>2, <1>8, <1>9, <1>10, <1>12 DEF Immutable, HandsOff

\* A builder writes to its own segment, that has no version string yet.
LEMMA BuildSave ==
  ASSUME IInv, BuildInv, NEW b \in Backends, NEW from \in Build,
         NEW to \in {"fill", "tag", "trie"}, NEW segment, Save(b, from, to, segment),
         from # to, ~segment.shrunk, segment.tag # None <=> to = "trie",
         to \in {"tag", "trie"} => segment.units = "full"
  PROVE  BuildInv' /\ Immutable /\ HandsOff
<1>. DEFINE object == [shm EXCEPT ![gSegment[b]] = segment]
<1>1. \A c \in Backends : pc'[c] = IF c = b THEN to ELSE pc[c]
  BY DEF Save, Goto, IInv, TypeOK, ProcType
<1>2. pc[b] = from /\ gJiaba' = gJiaba /\ Segments(shmName, gSegment, object)
  BY DEF Save, procVars
<1>3. gSegment[b] \in SegIds /\ shm[gSegment[b]].tag = None
  BY <1>2 DEF IInv, Sound, Build, Mapping, TypeOK, ShmType, BuildInv, Builder
<1>4. \A s \in SegIds : object[s] = IF s = gSegment[b] THEN segment ELSE shm[s]
  BY DEF IInv, TypeOK, ShmType
<1>. HIDE DEF object
<1>5. Segs'
  BY <1>2, <1>4, SegsBySegments DEF BuildInv, Segs
<1>6. gSegment' = gSegment
      /\ \A s \in SegIds : (\E c \in Backends : gSegment[c] = s) => shm'[s] = object[s]
  BY <1>2 DEF Segments
<1>7. ASSUME NEW c \in Backends \ {b}, pc[c] \in Build \cup {"trie"}
      PROVE  gSegment[c] # gSegment[b] /\ shm'[gSegment[c]] = shm[gSegment[c]]
  <2>1. gSegment[c] \in SegIds
    BY <1>7 DEF IInv, Sound, Build, Mapping, TypeOK, ShmType
  <2>2. gSegment[c] # gSegment[b]
    BY <1>2, <1>3, <1>7 DEF BuildInv, Builder, Alone
  <2>. QED
    BY <1>4, <1>6, <2>1, <2>2
<1>8. Builder(b)'
  <2>1. shm'[gSegment'[b]] = segment
    BY <1>3, <1>4, <1>6
  <2>2. gJiaba'[b] # None => gJiaba'[b].units = "full"
    BY <1>2 DEF BuildInv, Builder
  <2>. QED
    BY <1>1, <2>1, <2>2 DEF Builder, Build
<1>9. BuildInv'
  BY <1>1, <1>2, <1>5, <1>6, <1>7, <1>8, BuildOthers
<1>. QED
  BY <1>1, <1>2, <1>3, <1>4, <1>6, <1>7, <1>9 DEF Immutable, HandsOff

\* Processes that end leave their segments as they are.
LEMMA BuildExit ==
  ASSUME IInv, BuildInv, NEW gone \in SUBSET Backends, NEW label \in {"idle", "dead"},
         Exit(gone, label)
  PROVE  BuildInv' /\ Immutable /\ HandsOff
<1>1. \A c \in Backends : IF c \in gone
        THEN pc'[c] = label /\ gJiaba'[c] = None
        ELSE pc'[c] = pc[c] /\ gJiaba'[c] = gJiaba[c] /\ gSegment'[c] = gSegment[c]
  BY DEF Exit, Segments
<1>2. PICK map : Segments(shmName, map, shm)
  BY DEF Exit
<1>3. Segs'
  BY <1>2, SegsBySegments DEF BuildInv, Segs
<1>4. \A s \in SegIds : (\E c \in Backends : gSegment'[c] = s) => shm'[s] = shm[s]
  BY <1>2 DEF Segments
<1>5. \A c \in Backends \ gone : pc[c] \in Build \cup {"trie"} =>
        gSegment[c] \in SegIds /\ shm'[gSegment[c]] = shm[gSegment[c]]
  BY <1>1, <1>4 DEF IInv, Sound, Build, Mapping, TypeOK, ShmType
<1>6. ASSUME NEW c \in Backends PROVE Builder(c)'
  BY <1>1, <1>5 DEF BuildInv, Builder, Build
<1>7. Alone'
  BY <1>1 DEF BuildInv, Alone, Build
<1>. QED
  <2>1. HandsOff
    BY <1>1, <1>5, NamesAssumption
       DEF HandsOff, Build, IInv, Sound, Mapping, Busy
  <2>. QED
    BY <1>3, <1>4, <1>6, <1>7, <2>1 DEF BuildInv, Immutable

\* Steps that touch no segment, the parser made by BuildTrie apart.
LEMMA BuildQuietSteps ==
  ASSUME IInv, BuildInv, NEW b \in Backends,
         \/ ResetRemoveLock(b) \/ (\E f \in {"dict", "user"} : HashFile(b, f))
         \/ CheckVersion(b) \/ OpenLock(b) \/ AcquireTimed(b) \/ TimeOut(b)
         \/ StealRemoveLock(b) \/ StealReopenLock(b) \/ AcquireBlocking(b)
         \/ LoadDict(b) \/ LoadUserDict(b) \/ BuildTrie(b)
         \/ Finish(b) \/ GiveUp(b) \/ Unwind(b) \/ CatchRemoveLock(b)
  PROVE  BuildInv' /\ Immutable /\ HandsOff
<1>. USE DEF Build
<1>0. CASE Die(b)
  BY <1>0, BuildExit DEF Die
<1>1. TypeOK /\ (gJiaba[b] # None => gJiaba[b].units = "full")
  BY DEF IInv, BuildInv, Builder
<1>2. ASSUME NEW to \in Busy \cup {"idle"}, Goto(b, to), UNCHANGED shmVars,
             to \notin {"shrink", "reopenShm", "tag", "trie"},
             to \in Build => pc[b] \in Build,
             gJiaba' = gJiaba \/ gJiaba' = [gJiaba EXCEPT ![b] = None]
      PROVE  BuildInv' /\ Immutable /\ HandsOff
  BY <1>1, <1>2, BuildQuiet DEF TypeOK, ProcType
<1>3. CASE ResetRemoveLock(b) \/ OpenLock(b) \/ AcquireTimed(b) \/ TimeOut(b)
             \/ StealRemoveLock(b) \/ StealReopenLock(b) \/ AcquireBlocking(b)
  BY <1>2, <1>3
     DEF ResetRemoveLock, OpenLock, AcquireTimed, TimeOut, StealRemoveLock,
         StealReopenLock, AcquireBlocking, Acquire, Local, procVars, Busy, Critical
<1>4. CASE CheckVersion(b) \/ Finish(b) \/ GiveUp(b) \/ Unwind(b) \/ CatchRemoveLock(b)
  BY <1>2, <1>4
     DEF CheckVersion, Finish, GiveUp, Unwind, CatchRemoveLock, Fail, procVars,
         Busy, Critical
<1>5. ASSUME NEW f \in {"dict", "user"}, HashFile(b, f) PROVE BuildInv' /\ Immutable /\ HandsOff
  BY <1>5 DEF HashFile, BuildInv, Segs, FreeSegs, Alone, Builder, Immutable, HandsOff, shmVars
<1>6. CASE LoadDict(b) \/ LoadUserDict(b)
  BY <1>0, <1>2, <1>6 DEF LoadDict, LoadUserDict, Local, Busy, Critical
<1>7. CASE BuildTrie(b)
  <2>. DEFINE parser == [seg |-> gSegment[b], units |-> shm[gSegment[b]].units,
                         data |-> shm[gSegment[b]].data, singles |-> dictTrie[b].user]
  <2>1. CASE gJiaba' = [gJiaba EXCEPT ![b] = parser] /\ Goto(b, "unlock") /\ UNCHANGED shmVars
    <3>1. pc[b] = "trie"
      BY <1>7 DEF BuildTrie, Local
    <3>2. gSegment[b] \in SegIds /\ shm[gSegment[b]].tag # None
      BY <3>1 DEF BuildInv, Builder, IInv, Sound, Mapping, TypeOK, ShmType
    <3>3. parser.units = "full"
      BY <3>2 DEF BuildInv, Segs
    <3>4. \A c \in Backends : gJiaba'[c] = IF c = b THEN parser ELSE gJiaba[c]
      BY <2>1 DEF IInv, TypeOK, ProcType
    <3>. HIDE DEF parser
    <3>. QED
      BY <1>1, <2>1, <3>3, <3>4, BuildQuiet
  <2>2. CASE Local(b, "trie", "notOK")
    BY <1>2, <2>2 DEF Local, Busy, Critical
  <2>. QED
    BY <1>0, <1>7, <2>1, <2>2 DEF BuildTrie
<1>. QED
  BY <1>3, <1>4, <1>5, <1>6, <1>7

\* Mapping, unmapping, making and removing.
LEMMA BuildMoveSteps ==
  ASSUME IInv, BuildInv, NEW b \in Backends,
         \/ ResetRemoveShm(b) \/ MapSegment(b) \/ Verify(b) \/ RemoveStale(b)
         \/ CreateOnly(b) \/ NotOK(b) \/ CatchRemoveShm(b)
  PROVE  BuildInv' /\ Immutable /\ HandsOff
<1>. USE DEF Build
<1>1. gJiaba[b] # None => gJiaba[b].units = "full"
  BY DEF BuildInv, Builder
<1>2. ASSUME NEW to, Goto(b, to), RemoveShm, to \in Busy \cup {"idle"},
             to \notin Build \cup {"shrink", "reopenShm", "trie"},
             gJiaba' = gJiaba \/ gJiaba' = [gJiaba EXCEPT ![b] = None]
      PROVE  BuildInv' /\ Immutable /\ HandsOff
  BY <1>1, <1>2, BuildMove DEF RemoveShm, IInv, TypeOK, ProcType
<1>3. CASE ResetRemoveShm(b) \/ RemoveStale(b) \/ NotOK(b) \/ CatchRemoveShm(b)
  BY <1>2, <1>3
     DEF ResetRemoveShm, RemoveStale, NotOK, CatchRemoveShm, Fail, procVars, Busy, Critical
<1>4. ASSUME NEW seg, NEW to \in {"verify", "rmStale"}, Goto(b, to),
             Segments(shmName, [gSegment EXCEPT ![b] = seg], shm), gJiaba' = gJiaba
      PROVE  BuildInv' /\ Immutable /\ HandsOff
  <2>1. \A c \in Backends \ {b} : [gSegment EXCEPT ![b] = seg][c] = gSegment[c]
    BY DEF IInv, TypeOK, ShmType
  <2>. QED
    BY <1>1, <1>4, <2>1, BuildMove
<1>5. CASE MapSegment(b)
  <2>1. gJiaba' = gJiaba
    BY <1>5 DEF MapSegment, procVars
  <2>. QED
    BY <1>4, <1>5, <2>1, BuildCreate DEF MapSegment
<1>6. CASE Verify(b)
  <2>1. gJiaba' = gJiaba
    BY <1>6 DEF Verify, procVars
  <2>2. CASE Goto(b, "rmStale")
             /\ Segments(shmName, [gSegment EXCEPT ![b] = None], shm)
    BY <1>4, <2>1, <2>2
  <2>3. CASE /\ shm[gSegment[b]].tag = gsVsValue[b]
             /\ Goto(b, "trie") /\ UNCHANGED shmVars
    <3>1. shm[gSegment[b]].tag # None
      BY <2>3, ParserAssumption DEF IInv, TypeOK, ProcType
    <3>. QED
      BY <1>1, <2>1, <2>3, <3>1, BuildQuiet DEF IInv
  <2>. QED
    BY <1>6, <2>2, <2>3 DEF Verify
<1>7. CASE CreateOnly(b)
  <2>1. gJiaba' = gJiaba
    BY <1>7 DEF CreateOnly, procVars
  <2>2. CASE Goto(b, "unwind") /\ UNCHANGED shmVars
    BY <1>1, <2>1, <2>2, BuildQuiet DEF IInv
  <2>. QED
    BY <1>7, <2>1, <2>2, BuildCreate DEF CreateOnly
<1>. QED
  BY <1>3, <1>5, <1>6, <1>7

\* The steps of _saveToShm.
LEMMA BuildSaveSteps ==
  ASSUME ~Shrinks, IInv, BuildInv, NEW b \in Backends,
         \/ SaveConstruct(b) \/ SaveUnits(b) \/ SaveVersion(b)
         \/ Shrink(b) \/ ReopenShm(b)
  PROVE  BuildInv' /\ Immutable /\ HandsOff
<1>. DEFINE s == shm[gSegment[b]]
<1>. USE DEF Build
<1>1. pc[b] \in Build /\ gSegment[b] \in SegIds
  <2>1. pc[b] \in Build
    BY DEF SaveConstruct, SaveUnits, SaveVersion, Shrink, ReopenShm, Save, BadAlloc,
           Local, BuildInv, Builder
  <2>. QED
    BY <2>1 DEF IInv, Sound, Mapping, TypeOK, ShmType
<1>2. s \in Segment /\ ~s.shrunk /\ s.tag = None
  BY <1>1 DEF IInv, TypeOK, ShmType, BuildInv, Segs, Builder
<1>3. ASSUME NEW from, BadAlloc(b, from) PROVE BuildInv' /\ Immutable /\ HandsOff
  <2>1. gJiaba' = gJiaba /\ (gJiaba[b] # None => gJiaba[b].units = "full")
    BY <1>3 DEF BadAlloc, Local, BuildInv, Builder
  <2>. QED
    BY <1>3, <2>1, BuildQuiet DEF BadAlloc, Local, IInv
<1>4. CASE SaveConstruct(b)
  <2>. DEFINE new == [s EXCEPT !.units = "filling", !.data = dictTrie[b]]
  <2>1. ~new.shrunk /\ new.tag = None
    BY <1>2 DEF Segment
  <2>2. Save(b, "construct", "fill", new) => BuildInv' /\ Immutable /\ HandsOff
    <3>. HIDE DEF new
    <3>. QED BY <2>1, BuildSave
  <2>. QED
    BY <1>3, <1>4, <2>2 DEF SaveConstruct
<1>5. CASE SaveUnits(b)
  <2>. DEFINE new == [s EXCEPT !.units = "full"]
  <2>1. ~new.shrunk /\ new.tag = None /\ new.units = "full"
    BY <1>2 DEF Segment
  <2>2. Save(b, "fill", "tag", new) => BuildInv' /\ Immutable /\ HandsOff
    <3>. HIDE DEF new
    <3>. QED BY <2>1, BuildSave
  <2>. QED
    BY <1>2, <1>3, <1>5, <2>2 DEF SaveUnits
<1>6. CASE SaveVersion(b)
  <2>. DEFINE new == [s EXCEPT !.tag = gsVsValue[b]]
  <2>1. pc[b] = "tag"
    BY <1>6 DEF SaveVersion, Save, BadAlloc
  <2>2. ~new.shrunk /\ new.tag # None /\ new.units = "full"
    <3>1. gsVsValue[b] # None
      BY ParserAssumption DEF IInv, TypeOK, ProcType
    <3>2. s.units = "full"
      BY <2>1 DEF BuildInv, Builder
    <3>. QED
      BY <1>2, <3>1, <3>2 DEF Segment
  <2>3. Save(b, "tag", "trie", new) => BuildInv' /\ Immutable /\ HandsOff
    <3>. HIDE DEF new
    <3>. QED BY <2>2, BuildSave
  <2>. QED
    BY <1>3, <1>6, <2>3 DEF SaveVersion
<1>. QED
  BY <1>1, <1>4, <1>5, <1>6 DEF Shrink, ReopenShm, Local

\* The surroundings touch no segment in use.
LEMMA BuildSurroundings ==
  ASSUME IInv, BuildInv, Surroundings PROVE BuildInv' /\ Immutable /\ HandsOff
<1>. USE DEF Build
<1>1. ASSUME NEW b \in Backends, Start(b) \/ Reset(b) PROVE BuildInv' /\ Immutable /\ HandsOff
  <2>1. gJiaba[b] # None => gJiaba[b].units = "full"
    BY DEF BuildInv, Builder
  <2>. QED
    BY <1>1, <2>1, BuildQuiet DEF Start, Reset, Local, IInv, TypeOK, ProcType
<1>2. ASSUME NEW b \in Backends, Disconnect(b) \/ Kill(b) PROVE BuildInv' /\ Immutable /\ HandsOff
  BY <1>2, BuildExit DEF Disconnect, Kill
<1>3. ASSUME NEW c \in Clusters, Restart(c) PROVE BuildInv' /\ Immutable /\ HandsOff
  BY <1>3, ClusterAssumption, BuildExit DEF Restart
<1>4. ASSUME NEW f \in {"dict", "user"}, ReplaceFile(f) \/ RemoveFile(f)
      PROVE  BuildInv' /\ Immutable /\ HandsOff
  BY <1>4 DEF ReplaceFile, RemoveFile, BuildInv, Segs, FreeSegs, Alone, Builder,
              Immutable, HandsOff, shmVars, procVars
<1>. QED
  BY <1>1, <1>2, <1>3, <1>4 DEF Surroundings

\* The invariant is inductive, and no step writes to a published segment.
LEMMA NextBuildInv ==
  ~Shrinks /\ IInv /\ BuildInv /\ [Next]_vars => BuildInv' /\ Immutable /\ HandsOff
<1>1. ASSUME BuildInv, UNCHANGED vars PROVE BuildInv' /\ Immutable /\ HandsOff
  BY <1>1 DEF BuildInv, Segs, FreeSegs, Alone, Builder, Immutable, HandsOff, vars, shmVars, procVars
<1>2. ASSUME ~Shrinks, IInv, BuildInv, NEW b \in Backends, Step(b)
      PROVE  BuildInv' /\ Immutable /\ HandsOff
  BY <1>2, BuildQuietSteps, BuildMoveSteps, BuildSaveSteps DEF Step
<1>. QED
  BY <1>1, <1>2, BuildSurroundings DEF Next

\* The invariant holds before the first call.
LEMMA InitBuildInv == Init => BuildInv
BY DEF Init, BuildInv, Segs, Alone, Builder, Build, EmptySegment

\* Unless a segment is cut to its size after the save, every parser is built over
\* all units: a dead builder's segment, a full segment, the removal of the names at
\* any time and a second builder next to the first do not matter.
THEOREM ParsersAreComplete ==
  ASSUME ~Shrinks PROVE Spec => []ReadyComplete
<1>1. BuildInv => ReadyComplete
  BY DEF BuildInv, Builder, ReadyComplete
<1>2. IInv /\ BuildInv /\ [Next]_vars => BuildInv'
  BY NextBuildInv
<1>. QED
  BY <1>1, <1>2, InitBuildInv, InvHolds, PTL DEF Spec

\* Under the same condition a segment with a version string is never written
\* again while somebody has it mapped, or maps it.
THEOREM PublishedStays ==
  ASSUME ~Shrinks PROVE Spec => PublishedImmutable
<1>1. Immutable => [\A s \in SegIds :
                      shm[s].tag # None /\ (\E b \in Backends : gSegment'[b] = s)
                        => shm'[s] = shm[s]]_vars
  BY DEF Immutable
<1>2. IInv /\ BuildInv /\ [Next]_vars => BuildInv' /\ Immutable /\ HandsOff
  BY NextBuildInv
<1>. QED
  BY <1>1, <1>2, InitBuildInv, InvHolds, PTL DEF Spec, PublishedImmutable

-----------------------------------------------------------------------------
(* While no file is removed either, a version string is true of its segment, *)
(* and no process runs into a fault.                                        *)

FreshPart(b) ==
  /\ pc[b] \in {"fill", "tag"} => shm[gSegment[b]].data = dictTrie[b]
  /\ pc[b] = "trie" => shm[gSegment[b]].tag = gsVsValue[b]
  /\ gJiaba[b] # None => AtLeast(gJiaba[b].data, gsVsValue[b])

TagsTrue == \A s \in SegIds : shm[s].tag # None => AtLeast(shm[s].data, shm[s].tag)

FreshInv == TagsTrue /\ NoSelfDeath /\ \A b \in Backends : FreshPart(b)

\* the invariants of the three layers below
Below == IInv /\ FilesInv /\ BuildInv

\* A step of b that neither saves nor decides to read.
LEMMA FreshFrame ==
  ASSUME Below, FreshInv, HandsOff, NEW b \in Backends, NEW to, Goto(b, to),
         to \notin {"fill", "tag", "trie", "dead"}, kills' = kills,
         \A s \in SegIds : shm'[s] \in {shm[s], EmptySegment},
         \A c \in Backends \ {b} :
           /\ gSegment'[c] = gSegment[c] /\ gJiaba'[c] = gJiaba[c]
           /\ gsVsValue'[c] = gsVsValue[c] /\ dictTrie'[c] = dictTrie[c],
         \/ gJiaba'[b] = None
         \/ gJiaba'[b] = gJiaba[b] /\ gsVsValue'[b] = gsVsValue[b]
  PROVE  FreshInv'
<1>1. \A c \in Backends : pc'[c] = IF c = b THEN to ELSE pc[c]
  BY DEF Goto, Below, IInv, TypeOK, ProcType
<1>2. TagsTrue'
  BY DEF FreshInv, TagsTrue, EmptySegment, AtLeast
<1>3. NoSelfDeath'
  BY <1>1 DEF FreshInv, NoSelfDeath
<1>4. ASSUME NEW c \in Backends PROVE FreshPart(c)'
  <2>1. CASE c = b
    BY <1>1, <2>1 DEF FreshInv, FreshPart, AtLeast
  <2>2. CASE c # b
    <3>1. pc[c] \in {"fill", "tag", "trie"} => shm'[gSegment'[c]] = shm[gSegment[c]]
      BY <1>1, <2>2 DEF HandsOff, Build
    <3>. QED
      BY <1>1, <2>2, <3>1 DEF FreshInv, FreshPart, AtLeast
  <2>. QED
    BY <2>1, <2>2
<1>. QED
  BY <1>2, <1>3, <1>4 DEF FreshInv

\* The end of processes that were killed, or that the postmaster ends.
LEMMA FreshExit ==
  ASSUME Below, FreshInv, HandsOff, NEW gone \in SUBSET Backends,
         NEW label \in {"idle", "dead"}, Exit(gone, label),
         kills' = kills \/ kills' = kills + 1, label = "dead" => kills' = kills + 1
  PROVE  FreshInv'
<1>1. \A c \in Backends : IF c \in gone
        THEN pc'[c] = label /\ gJiaba'[c] = None
        ELSE /\ pc'[c] = pc[c] /\ gJiaba'[c] = gJiaba[c] /\ gSegment'[c] = gSegment[c]
             /\ gsVsValue'[c] = gsVsValue[c] /\ dictTrie'[c] = dictTrie[c]
  BY DEF Exit, Segments
<1>2. \A s \in SegIds : shm'[s] \in {shm[s], EmptySegment}
  BY DEF Exit, Segments
<1>3. TagsTrue'
  BY <1>2 DEF FreshInv, TagsTrue, EmptySegment, AtLeast
<1>4. NoSelfDeath'
  BY <1>1 DEF FreshInv, NoSelfDeath, Below, IInv, TypeOK, EnvType
<1>5. ASSUME NEW c \in Backends PROVE FreshPart(c)'
  <2>1. c \notin gone /\ pc[c] \in {"fill", "tag", "trie"}
          => shm'[gSegment'[c]] = shm[gSegment[c]]
    BY <1>1 DEF HandsOff, Build
  <2>. QED
    BY <1>1, <2>1 DEF FreshInv, FreshPart, AtLeast
<1>. QED
  BY <1>3, <1>4, <1>5 DEF FreshInv

\* No process faults while the files are there and the segments are what their
\* builders and readers take them for.
LEMMA NoFault ==
  ASSUME IInv, FilesInv, NEW b \in Backends, Step(b),
         pc[b] = "fill" => ~shm[gSegment[b]].shrunk,
         pc[b] = "trie" => shm[gSegment[b]].units = "full",
         pc[b] = "reopenShm" /\ shmName # None => shm[shmName].units # "absent"
  PROVE  ~Die(b)
<1>. SUFFICES ASSUME Die(b) PROVE FALSE
  OBVIOUS
<1>1. pc'[b] = "dead"
  BY DEF Die, Exit
<1>. USE DEF Busy, Critical
<1>2. \A to : Goto(b, to) => to = "dead"
  BY <1>1 DEF Goto, IInv, TypeOK, ProcType
<1>3. files.dict # 0 /\ files.user # 0
  BY DEF FilesInv, FilesTrue
<1>4. ~LoadDict(b)
  BY <1>2, <1>3 DEF LoadDict, Local
<1>5. ~LoadUserDict(b)
  <2>1. [dictTrie[b] EXCEPT !.user = files.user] # NothingLoaded
    <3>1. [dictTrie[b] EXCEPT !.user = files.user].user = files.user
      BY DEF IInv, TypeOK, ProcType, Content
    <3>. QED
      BY <1>3, <3>1 DEF NothingLoaded
  <2>. QED
    BY <1>2, <2>1 DEF LoadUserDict, Local
<1>6. ~SaveConstruct(b) /\ ~SaveUnits(b) /\ ~SaveVersion(b) /\ ~ReopenShm(b) /\ ~BuildTrie(b)
  BY <1>2 DEF SaveConstruct, SaveUnits, SaveVersion, Save, BadAlloc, ReopenShm, BuildTrie, Local
<1>7. \A f : ~HashFile(b, f)
  BY <1>1 DEF HashFile
<1>. QED
  BY <1>2, <1>4, <1>5, <1>6, <1>7
     DEF Step, ResetRemoveLock, ResetRemoveShm, CheckVersion, OpenLock, AcquireTimed,
         Acquire, TimeOut, StealRemoveLock, StealReopenLock, AcquireBlocking, MapSegment,
         Verify, RemoveStale, CreateOnly, Shrink, Finish, NotOK, GiveUp, Unwind,
         CatchRemoveLock, CatchRemoveShm, Fail, Local

\* No process faults by itself.
LEMMA NobodyDies ==
  ASSUME Below, ~Shrinks, NEW b \in Backends, Step(b)
  PROVE  ~Die(b)
<1>1. pc[b] # "reopenShm" /\ (pc[b] = "fill" => ~shm[gSegment[b]].shrunk)
      /\ (pc[b] = "trie" => shm[gSegment[b]].units = "full")
  BY DEF Below, IInv, Sound, Mapping, TypeOK, ShmType, BuildInv, Builder, Segs
<1>. QED
  BY <1>1, NoFault DEF Below

\* A builder's write to its own segment.
LEMMA FreshSave ==
  ASSUME Below, FreshInv, HandsOff, NEW b \in Backends, NEW from \in Build,
         NEW to \in {"fill", "tag", "trie"}, NEW segment, Save(b, from, to, segment),
         segment.tag # None => AtLeast(segment.data, segment.tag),
         to # "trie" => segment.data = dictTrie[b],
         to = "trie" => segment.tag = gsVsValue[b]
  PROVE  FreshInv'
<1>. DEFINE object == [shm EXCEPT ![gSegment[b]] = segment]
<1>1. \A c \in Backends : pc'[c] = IF c = b THEN to ELSE pc[c]
  BY DEF Save, Goto, Below, IInv, TypeOK, ProcType
<1>2. /\ pc[b] = from /\ gJiaba' = gJiaba /\ gsVsValue' = gsVsValue
      /\ dictTrie' = dictTrie /\ kills' = kills
      /\ Segments(shmName, gSegment, object)
  BY DEF Save, procVars, envVars
<1>3. gSegment[b] \in SegIds
  BY <1>2 DEF Below, IInv, Sound, Build, Mapping, TypeOK, ShmType
<1>4. \A s \in SegIds : object[s] = IF s = gSegment[b] THEN segment ELSE shm[s]
  BY DEF Below, IInv, TypeOK, ShmType
<1>. HIDE DEF object
<1>5. /\ gSegment' = gSegment /\ shm'[gSegment[b]] = segment
      /\ \A s \in SegIds : shm'[s] \in {segment, shm[s], EmptySegment}
  BY <1>2, <1>3, <1>4 DEF Segments
<1>6. TagsTrue'
  BY <1>5 DEF FreshInv, TagsTrue, EmptySegment, AtLeast
<1>7. NoSelfDeath'
  BY <1>1, <1>2 DEF FreshInv, NoSelfDeath
<1>8. ASSUME NEW c \in Backends, c # b PROVE FreshPart(c)'
  <2>1. pc[c] \in {"fill", "tag", "trie"} => shm'[gSegment'[c]] = shm[gSegment[c]]
    BY <1>1, <1>5, <1>8 DEF HandsOff, Build
  <2>. QED
    BY <1>1, <1>2, <1>8, <2>1 DEF FreshInv, FreshPart, AtLeast
<1>9. FreshPart(b)'
  BY <1>1, <1>2, <1>5 DEF FreshInv, FreshPart, AtLeast
<1>. QED
  BY <1>6, <1>7, <1>8, <1>9 DEF FreshInv

\* The steps of _saveToShm: the data saved are those loaded after the hash.
LEMMA FreshSaveSteps ==
  ASSUME Below, FreshInv, HandsOff, ~Shrinks, NEW b \in Backends, Step(b),
         SaveConstruct(b) \/ SaveUnits(b) \/ SaveVersion(b)
  PROVE  FreshInv'
<1>. DEFINE s == shm[gSegment[b]]
<1>. USE DEF Build
<1>0. ~Die(b)
  BY NobodyDies
<1>1. pc[b] \in Loaded /\ gSegment[b] \in SegIds
  <2>1. pc[b] \in Loaded
    BY <1>0 DEF SaveConstruct, SaveUnits, SaveVersion, Save, BadAlloc, Loaded
  <2>. QED
    BY <2>1 DEF Below, IInv, Sound, Mapping, Loaded, TypeOK, ShmType
<1>2. s \in Segment /\ ~s.shrunk /\ s.tag = None
  BY <1>1 DEF Below, IInv, TypeOK, ShmType, BuildInv, Segs, Builder, Loaded
<1>3. ASSUME NEW from, BadAlloc(b, from) PROVE FreshInv'
  BY <1>3, FreshFrame DEF BadAlloc, Local, shmVars, envVars
<1>4. CASE SaveConstruct(b)
  <2>. DEFINE new == [s EXCEPT !.units = "filling", !.data = dictTrie[b]]
  <2>1. new.tag = None /\ new.data = dictTrie[b]
    BY <1>2 DEF Segment
  <2>2. Save(b, "construct", "fill", new) => FreshInv'
    <3>. HIDE DEF new
    <3>. QED BY <2>1, FreshSave
  <2>. QED
    BY <1>3, <1>4, <2>2 DEF SaveConstruct
<1>5. CASE SaveUnits(b)
  <2>. DEFINE new == [s EXCEPT !.units = "full"]
  <2>1. pc[b] = "fill"
    BY <1>0, <1>5 DEF SaveUnits, Save, BadAlloc
  <2>2. new.tag = None /\ new.data = dictTrie[b]
    BY <1>2, <2>1 DEF Segment, FreshInv, FreshPart
  <2>3. Save(b, "fill", "tag", new) => FreshInv'
    <3>. HIDE DEF new
    <3>. QED BY <2>2, FreshSave
  <2>. QED
    BY <1>0, <1>2, <1>3, <1>5, <2>3 DEF SaveUnits
<1>6. CASE SaveVersion(b)
  <2>. DEFINE new == [s EXCEPT !.tag = gsVsValue[b]]
  <2>1. pc[b] = "tag"
    BY <1>6 DEF SaveVersion, Save, BadAlloc
  <2>2. new.tag = gsVsValue[b] /\ new.data = dictTrie[b]
    BY <1>2, <2>1 DEF Segment, FreshInv, FreshPart
  <2>3. AtLeast(dictTrie[b], gsVsValue[b])
    <3>1. LoadedAfterHash(b) /\ Hashed(b)
      BY <2>1 DEF Below, FilesInv, LoadedAfterHash, Beyond, Busy, Critical
    <3>2. /\ gsVsValue[b].dict <= dictTrie[b].dict
          /\ gsVsValue[b].user <= dictTrie[b].user
      BY <2>1, <3>1 DEF LoadedAfterHash, Loaded
    <3>3. /\ dictTrie[b].dict \in Nat /\ dictTrie[b].user \in Nat
          /\ gsVsValue[b].dict \in Nat /\ gsVsValue[b].user \in Nat
      BY <3>1 DEF Below, IInv, TypeOK, ProcType, Content, Fingerprint, Version, Hashed
    <3>. QED
      BY <3>2, <3>3 DEF AtLeast
  <2>4. Save(b, "tag", "trie", new) => FreshInv'
    <3>. HIDE DEF new
    <3>. QED BY <2>2, <2>3, FreshSave
  <2>. QED
    BY <1>3, <1>6, <2>4 DEF SaveVersion
<1>. QED
  BY <1>4, <1>5, <1>6

\* _chkShMem accepts the version hashed, and the parser is built over it.
LEMMA FreshReadSteps ==
  ASSUME Below, FreshInv, HandsOff, ~Shrinks, NEW b \in Backends, Step(b),
         Verify(b) \/ BuildTrie(b)
  PROVE  FreshInv'
<1>0. ~Die(b)
  BY NobodyDies
<1>1. CASE Verify(b)
  <2>1. kills' = kills /\ gJiaba' = gJiaba /\ gsVsValue' = gsVsValue /\ dictTrie' = dictTrie
    BY <1>1 DEF Verify, envVars, procVars
  <2>2. CASE /\ Goto(b, "rmStale")
             /\ Segments(shmName, [gSegment EXCEPT ![b] = None], shm)
    <3>1. \A s \in SegIds : shm'[s] \in {shm[s], EmptySegment}
      BY <2>2 DEF Segments
    <3>2. \A c \in Backends \ {b} : gSegment'[c] = gSegment[c]
      BY <2>2 DEF Segments, Below, IInv, TypeOK, ShmType
    <3>. QED
      BY <2>1, <2>2, <3>1, <3>2, FreshFrame
  <2>3. CASE /\ shm[gSegment[b]].tag = gsVsValue[b]
             /\ Goto(b, "trie") /\ UNCHANGED shmVars
    <3>1. \A c \in Backends : pc'[c] = IF c = b THEN "trie" ELSE pc[c]
      BY <2>3 DEF Goto, Below, IInv, TypeOK, ProcType
    <3>2. shm' = shm /\ gSegment' = gSegment
      BY <2>3 DEF shmVars
    <3>3. \A c \in Backends : FreshPart(c)'
      BY <2>1, <2>3, <3>1, <3>2 DEF FreshInv, FreshPart, AtLeast
    <3>4. TagsTrue' /\ NoSelfDeath'
      BY <2>1, <3>1, <3>2 DEF FreshInv, TagsTrue, NoSelfDeath, AtLeast
    <3>. QED
      BY <3>3, <3>4 DEF FreshInv
  <2>. QED
    BY <1>1, <2>2, <2>3 DEF Verify
<1>2. CASE BuildTrie(b)
  <2>. DEFINE parser == [seg |-> gSegment[b], units |-> shm[gSegment[b]].units,
                         data |-> shm[gSegment[b]].data, singles |-> dictTrie[b].user]
  <2>1. CASE Local(b, "trie", "notOK") /\ UNCHANGED <<gsVsValue, dictTrie>>
    BY <2>1, FreshFrame DEF Local, shmVars, envVars
  <2>2. CASE /\ pc[b] = "trie" /\ gJiaba' = [gJiaba EXCEPT ![b] = parser]
             /\ Goto(b, "unlock")
             /\ UNCHANGED <<shmVars, envVars, gsVsValue, dictTrie>>
    <3>1. \A c \in Backends : pc'[c] = IF c = b THEN "unlock" ELSE pc[c]
      BY <2>2 DEF Goto, Below, IInv, TypeOK, ProcType
    <3>2. shm' = shm /\ gSegment' = gSegment /\ kills' = kills
      BY <2>2 DEF shmVars, envVars
    <3>3. AtLeast(parser.data, gsVsValue[b])
      <4>1. gSegment[b] \in SegIds /\ shm[gSegment[b]].tag # None
        BY <2>2 DEF Below, IInv, Sound, Mapping, TypeOK, ShmType, BuildInv, Builder
      <4>2. shm[gSegment[b]].tag = gsVsValue[b]
        BY <2>2 DEF FreshInv, FreshPart
      <4>. QED
        BY <4>1, <4>2 DEF FreshInv, TagsTrue
    <3>4. \A c \in Backends : gJiaba'[c] = IF c = b THEN parser ELSE gJiaba[c]
      BY <2>2 DEF Below, IInv, TypeOK, ProcType
    <3>. HIDE DEF parser
    <3>5. \A c \in Backends : FreshPart(c)'
      BY <2>2, <3>1, <3>2, <3>3, <3>4 DEF FreshInv, FreshPart, AtLeast
    <3>6. TagsTrue' /\ NoSelfDeath'
      BY <3>1, <3>2 DEF FreshInv, TagsTrue, NoSelfDeath, AtLeast
    <3>. QED
      BY <3>5, <3>6 DEF FreshInv
  <2>. QED
    BY <1>0, <1>2, <2>1, <2>2 DEF BuildTrie
<1>. QED
  BY <1>1, <1>2

\* All other steps inside init().
LEMMA FreshOtherSteps ==
  ASSUME Below, FreshInv, HandsOff, ~Shrinks, NEW b \in Backends, Step(b),
         ~SaveConstruct(b), ~SaveUnits(b), ~SaveVersion(b), ~Verify(b), ~BuildTrie(b)
  PROVE  FreshInv'
<1>0. ~Die(b)
  BY NobodyDies
<1>1. gJiaba' = gJiaba \/ gJiaba' = [gJiaba EXCEPT ![b] = None] =>
        /\ \A c \in Backends \ {b} : gJiaba'[c] = gJiaba[c]
        /\ gJiaba'[b] \in {gJiaba[b], None}
  BY DEF Below, IInv, TypeOK, ProcType
<1>2. dictTrie \in [Backends -> Content]
  BY DEF Below, IInv, TypeOK, ProcType
<1>3. \A c \in Backends \ {b} : \A v : [gSegment EXCEPT ![b] = v][c] = gSegment[c]
  BY DEF Below, IInv, TypeOK, ShmType
<1>4. ASSUME NEW to, Goto(b, to), to \notin {"fill", "tag", "trie", "dead"},
             kills' = kills, UNCHANGED <<gsVsValue, shm, gSegment>>,
             \A c \in Backends \ {b} : dictTrie'[c] = dictTrie[c],
             gJiaba' = gJiaba \/ gJiaba' = [gJiaba EXCEPT ![b] = None]
      PROVE  FreshInv'
  BY <1>1, <1>4, FreshFrame
<1>5. CASE \/ ResetRemoveLock(b) \/ OpenLock(b) \/ AcquireTimed(b) \/ TimeOut(b)
           \/ StealRemoveLock(b) \/ StealReopenLock(b) \/ AcquireBlocking(b)
           \/ Unwind(b) \/ CatchRemoveLock(b)
  BY <1>4, <1>5
     DEF ResetRemoveLock, OpenLock, AcquireTimed, TimeOut, StealRemoveLock,
         StealReopenLock, AcquireBlocking, Acquire, Unwind, CatchRemoveLock, Local,
         shmVars, envVars, procVars
<1>6. CASE CheckVersion(b) \/ Finish(b) \/ GiveUp(b)
  BY <1>2, <1>4, <1>6 DEF CheckVersion, Finish, GiveUp, Fail, shmVars, envVars, procVars
<1>7. CASE LoadDict(b)
  BY <1>0, <1>2, <1>4, <1>7 DEF LoadDict, Local, shmVars, envVars
<1>8. CASE LoadUserDict(b)
  BY <1>0, <1>2, <1>4, <1>8 DEF LoadUserDict, Local, shmVars, envVars
<1>9. ASSUME NEW f \in {"dict", "user"}, HashFile(b, f) PROVE FreshInv'
  <2>1. gJiaba[b] = None /\ pc[b] = "hash" /\ Goto(b, "hash")
    BY <1>9, NoParser DEF HashFile, Below, Goto, IInv, TypeOK, ProcType
  <2>2. \A c \in Backends \ {b} : gsVsValue'[c] = gsVsValue[c]
    BY <1>9 DEF HashFile, Below, IInv, TypeOK, ProcType
  <2>. QED
    BY <1>9, <2>1, <2>2, FreshFrame DEF HashFile, shmVars, envVars
<1>10. ASSUME NEW to, Goto(b, to), to \notin {"fill", "tag", "trie", "dead"},
              kills' = kills, gsVsValue' = gsVsValue, 
              \A c \in Backends \ {b} : dictTrie'[c] = dictTrie[c],
              gJiaba' = gJiaba \/ gJiaba' = [gJiaba EXCEPT ![b] = None],
              NEW name, NEW seg,
              \/ Segments(name, gSegment, shm)
              \/ Segments(name, [gSegment EXCEPT ![b] = seg], shm)
       PROVE  FreshInv'
  <2>1. \A s \in SegIds : shm'[s] \in {shm[s], EmptySegment}
    BY <1>10 DEF Segments
  <2>2. \A c \in Backends \ {b} : gSegment'[c] = gSegment[c]
    BY <1>3, <1>10, ZenonT(30) DEF Segments
  <2>. QED
    BY <1>1, <1>10, <2>1, <2>2, FreshFrame
<1>11. CASE ResetRemoveShm(b) \/ RemoveStale(b) \/ NotOK(b) \/ CatchRemoveShm(b)
  BY <1>2, <1>10, <1>11
     DEF ResetRemoveShm, RemoveStale, NotOK, CatchRemoveShm, RemoveShm, Fail, envVars, procVars
<1>12. ASSUME NEW to \in {"verify", "load"}, Goto(b, to), CreateSegment(b),
              UNCHANGED <<envVars, procVars>>
       PROVE  FreshInv'
  <2>1. CreateSegment(b) => \E s \in FreeSegs :
          Segments(s, [gSegment EXCEPT ![b] = s], [shm EXCEPT ![s] = EmptySegment])
    BY DEF CreateSegment
  <2>2. PICK s \in FreeSegs :
          Segments(s, [gSegment EXCEPT ![b] = s], [shm EXCEPT ![s] = EmptySegment])
    BY <1>12, <2>1
  <2>3. \A t \in SegIds : [shm EXCEPT ![s] = EmptySegment][t] \in {shm[t], EmptySegment}
    BY DEF Below, IInv, TypeOK, ShmType
  <2>4. \A t \in SegIds : shm'[t] \in {shm[t], EmptySegment}
    BY <2>2, <2>3 DEF Segments
  <2>5. \A c \in Backends \ {b} : gSegment'[c] = gSegment[c]
    BY <1>3, <2>2 DEF Segments
  <2>. QED
    BY <1>12, <2>4, <2>5, FreshFrame DEF envVars, procVars
<1>13. CASE MapSegment(b)
  BY <1>10, <1>12, <1>13 DEF MapSegment, envVars, procVars
<1>14. CASE CreateOnly(b)
  BY <1>4, <1>12, <1>14 DEF CreateOnly, shmVars, envVars, procVars
<1>15. ~Shrink(b) /\ ~ReopenShm(b)
  BY DEF Below, BuildInv, Builder, Shrink, ReopenShm, Local
<1>. QED
  BY <1>5, <1>6, <1>7, <1>8, <1>9, <1>11, <1>13, <1>14, <1>15 DEF Step

\* The surroundings: only a kill makes a process dead.
LEMMA FreshSurroundings ==
  ASSUME Below, FreshInv, HandsOff, Surroundings PROVE FreshInv'
<1>1. ASSUME NEW b \in Backends, Start(b) \/ Reset(b) PROVE FreshInv'
  <2>1. PICK to \in {"hash", "rmLock"} : Goto(b, to)
    BY <1>1 DEF Start, Reset, Local
  <2>2. gJiaba'[b] = None /\ \A c \in Backends \ {b} : gJiaba'[c] = gJiaba[c]
    BY <1>1 DEF Start, Reset, Local, Below, IInv, Sound, TypeOK, ProcType
  <2>3. \A c \in Backends \ {b} : gsVsValue'[c] = gsVsValue[c] /\ dictTrie'[c] = dictTrie[c]
    BY <1>1 DEF Start, Reset, Below, IInv, TypeOK, ProcType
  <2>4. kills' = kills /\ shm' = shm /\ gSegment' = gSegment
    BY <1>1 DEF Start, Reset, Local, envVars, shmVars
  <2>. QED
    BY <2>1, <2>2, <2>3, <2>4, FreshFrame
<1>2. ASSUME NEW b \in Backends, Disconnect(b) \/ Kill(b) PROVE FreshInv'
  BY <1>2, FreshExit DEF Disconnect, Kill, envVars
<1>3. ASSUME NEW c \in Clusters, Restart(c) PROVE FreshInv'
  BY <1>3, ClusterAssumption, FreshExit DEF Restart, envVars
<1>4. ASSUME NEW f \in {"dict", "user"}, ReplaceFile(f) \/ RemoveFile(f) PROVE FreshInv'
  BY <1>4 DEF ReplaceFile, RemoveFile, FreshInv, TagsTrue, NoSelfDeath, FreshPart, AtLeast,
              shmVars, procVars
<1>. QED
  BY <1>1, <1>2, <1>3, <1>4 DEF Surroundings

\* All invariants together are inductive.
LEMMA NextFreshInv ==
  ~Shrinks /\ ~FilesVanish /\ Below /\ FreshInv /\ [Next]_vars => Below' /\ FreshInv'
<1>1. ASSUME FreshInv, UNCHANGED vars PROVE FreshInv'
  BY <1>1 DEF FreshInv, TagsTrue, NoSelfDeath, FreshPart, AtLeast, vars, envVars, shmVars, procVars
<1>2. ASSUME ~Shrinks, Below, FreshInv, HandsOff, NEW b \in Backends, Step(b)
      PROVE  FreshInv'
  BY <1>2, FreshSaveSteps, FreshReadSteps, FreshOtherSteps
<1>3. ~Shrinks /\ ~FilesVanish /\ Below /\ [Next]_vars => Below' /\ HandsOff
  BY NextInv, NextFilesInv, NextBuildInv DEF Below, IInv
<1>. QED
  BY <1>1, <1>2, <1>3, FreshSurroundings DEF Next

\* All invariants hold before the first call.
LEMMA InitFreshInv == Init => Below /\ FreshInv
<1>. SUFFICES ASSUME Init PROVE Below /\ FreshInv
  OBVIOUS
<1>1. IInv /\ BuildInv
  BY InitInv, InitBuildInv
<1>2. FilesInv
  BY DEF Init, FilesInv, FilesTrue, NotHashed, LoadedAfterHash, Beyond, Busy, Critical, Loaded
<1>3. FreshInv
  BY DEF Init, FreshInv, TagsTrue, EmptySegment, NoSelfDeath, FreshPart
<1>. QED
  BY <1>1, <1>2, <1>3 DEF Below

\* The invariant holds in every reachable state if nothing shrinks or vanishes.
LEMMA FreshHolds ==
  ASSUME ~Shrinks, ~FilesVanish PROVE Spec => [](Below /\ FreshInv)
<1>1. Below /\ FreshInv /\ [Next]_vars => Below' /\ FreshInv'
  BY NextFreshInv
<1>. QED
  BY <1>1, InitFreshInv, PTL DEF Spec

\* Without shrink_to_fit and with the files in place, a version string is a true
\* promise: all units are there, and they are no older than the files it is computed
\* from, though builders hash first and load much later, die between any two steps,
\* and have the names removed under them.
THEOREM VersionStringIsTrue ==
  ASSUME ~Shrinks, ~FilesVanish PROVE Spec => []TaggedComplete
<1>1. Below /\ FreshInv => TaggedComplete
  BY DEF Below, BuildInv, Segs, FreshInv, TagsTrue, TaggedComplete
<1>. QED
  BY <1>1, FreshHolds, PTL

\* Under the same conditions the dictionary of a parser is no older than the files
\* were when its backend hashed them.
THEOREM ParsersAreFresh ==
  ASSUME ~Shrinks, ~FilesVanish PROVE Spec => []ParserFresh
<1>1. FreshInv => ParserFresh
  BY DEF FreshInv, FreshPart, ParserFresh
<1>. QED
  BY <1>1, FreshHolds, PTL

\* Under the same conditions no process dies in init_jieba_share but by a kill from
\* outside: no assertion fails, no null pointer is used, no torn vector is read.
THEOREM OnlyKillsKill ==
  ASSUME ~Shrinks, ~FilesVanish PROVE Spec => []NoSelfDeath
<1>1. FreshInv => NoSelfDeath
  BY DEF FreshInv
<1>. QED
  BY <1>1, FreshHolds, PTL

-----------------------------------------------------------------------------
(* Undisturbed: nobody resets or is killed, the files are there, the segment *)
(* is large enough, and no owner of the mutex takes six seconds.  If besides *)
(* no waiter is overtaken (~LongQueue: the owners before it together do not  *)
(* take six seconds either), the mutex does what it is for, also with        *)
(* shrink_to_fit.  Otherwise it does so until a file changes: see FirstInv.  *)

OneInside ==
  \A a, b \in Backends :
    pc[a] \in Critical /\ pc[b] \in Critical => a = b

Undisturbed == ~SlowBuild /\ ~ShmFull /\ ~FilesVanish /\ MaxResets = 0 /\ MaxKills = 0

\* where a backend gets by a reset, a timeout, an exception or a fault
Away == {"rmLock", "rmShm", "steal", "reopenLock", "block", "unwind",
         "catchLock", "catchShm", "notOK", "giveUp", "dead"}

Calm ==
  /\ \A b \in Backends : pc[b] \notin Away /\ gLock[b] \in {None, lockName}
  /\ \A l \in LockIds : lockOwner[l] # Dead

Settled == shmName # None /\ shm[shmName].tag # None

\* no segment is cut while it is built, all that are published are complete,
\* and no older than the files
Published ==
  \A s \in SegIds :
    /\ ~shm[s].shrunk
    /\ shm[s].tag # None =>
         /\ shm[s].units = "full"
         /\ \A f \in {"dict", "user"} :
              shm[s].tag[f] \in 1..version /\ shm[s].data[f] <= files[f]

\* what the one backend in the critical section knows
AtPlace(b) ==
  /\ pc[b] = "rmStale" /\ version = 1 => ~Settled
  /\ pc[b] = "create" => shmName = None
  /\ pc[b] \in Build \cup {"verify", "shrink", "trie"} =>
       shmName # None /\ gSegment[b] = shmName
  /\ pc[b] \in Build => shm[shmName].tag = None
  /\ pc[b] \in {"fill", "tag"} => shm[shmName].data = dictTrie[b]
  /\ pc[b] = "tag" => shm[shmName].units = "full"
  /\ pc[b] \in {"shrink", "reopenShm", "trie"} => Settled
  /\ pc[b] \in Loaded \cup {"loadUser"} =>
       \A s \in SegIds : shm[s].tag # None => shm[s].data.dict <= dictTrie[b].dict
  /\ pc[b] \in Loaded =>
       \A s \in SegIds : shm[s].tag # None => shm[s].data.user <= dictTrie[b].user

\* as long as no file has changed, every parser is over the named segment
OneCopy ==
  \A b \in Backends : gJiaba[b] # None =>
    /\ gJiaba[b].units = "full"
    /\ version = 1 => Settled /\ gJiaba[b].seg = shmName

CalmInv == Calm /\ Published /\ NamedIsNewest /\ OneCopy /\ \A b \in Backends : AtPlace(b)

Ground == IInv /\ LockInv /\ FilesInv

\* There is one mutex, so there is one owner.
LEMMA CalmExcludes == Ground /\ Calm => OneInside
BY DEF Ground, LockInv, LockDiscipline, Calm, OneInside

\* A step on no mutex that does not lead away.
LEMMA CalmFrame ==
  ASSUME Ground, Calm, NEW b \in Backends, NEW to \in Busy \cup {"idle"}, to \notin Away,
         Goto(b, to), UNCHANGED lockVars
  PROVE  Calm'
<1>1. \A c \in Backends : pc'[c] = IF c = b THEN to ELSE pc[c]
  BY DEF Goto, Ground, IInv, TypeOK, ProcType
<1>. QED
  BY <1>1 DEF Calm, lockVars

\* A step of b, in the critical section or on no segment, leaves the others alone:
\* only the one in the critical section knows something of the segments.
LEMMA CalmOthers ==
  ASSUME Ground, CalmInv, NEW b \in Backends,
         pc[b] \in Critical \/ UNCHANGED <<shmVars, version>>,
         \A c \in Backends \ {b} :
           pc'[c] = pc[c] /\ dictTrie'[c] = dictTrie[c] /\ gSegment'[c] = gSegment[c],
         AtPlace(b)'
  PROVE  \A c \in Backends : AtPlace(c)'
<1>. SUFFICES ASSUME NEW c \in Backends, c # b PROVE AtPlace(c)'
  OBVIOUS
<1>1. CASE pc[b] \in Critical
  <2>1. pc[c] \notin Critical
    BY <1>1, CalmExcludes DEF CalmInv, OneInside
  <2>. QED
    BY <2>1 DEF AtPlace, Critical, Build, Loaded
<1>2. CASE UNCHANGED <<shmVars, version>>
  BY <1>2 DEF CalmInv, AtPlace, Settled, shmVars
<1>. QED
  BY <1>1, <1>2

\* A step of b on no segment.
LEMMA CalmQuiet ==
  ASSUME Ground, CalmInv, NEW b \in Backends, NEW to \in Busy \cup {"idle"}, Goto(b, to),
         UNCHANGED <<shmVars, files, version>>, Calm', AtPlace(b)',
         \A c \in Backends \ {b} : dictTrie'[c] = dictTrie[c] /\ gJiaba'[c] = gJiaba[c],
         \/ gJiaba'[b] \in {gJiaba[b], None}
         \/ Settled /\ gJiaba'[b].units = "full" /\ gJiaba'[b].seg = shmName
  PROVE  CalmInv'
<1>1. \A c \in Backends : pc'[c] = IF c = b THEN to ELSE pc[c]
  BY DEF Goto, Ground, IInv, TypeOK, ProcType
<1>2. shm' = shm /\ gSegment' = gSegment /\ shmName' = shmName
  BY DEF shmVars
<1>3. Published' /\ NamedIsNewest'
  BY <1>2 DEF CalmInv, Published, NamedIsNewest, AtLeast
<1>4. OneCopy'
  BY <1>2 DEF CalmInv, OneCopy, Settled
<1>5. \A c \in Backends : AtPlace(c)'
  BY <1>1, <1>2, CalmOthers
<1>. QED
  BY <1>3, <1>4, <1>5 DEF CalmInv

\* A step of the backend in the critical section on the segments.
LEMMA CalmInside ==
  ASSUME Ground, CalmInv, NEW b \in Backends, pc[b] \in Critical,
         NEW to \in Busy, to \notin Away, Goto(b, to),
         UNCHANGED <<lockVars, envVars, procVars>>,
         \A c \in Backends \ {b} : gSegment'[c] = gSegment[c],
         Published', NamedIsNewest', AtPlace(b)',
         (\E c \in Backends : gJiaba[c] # None) /\ version = 1 /\ Settled
           => Settled' /\ shmName' = shmName
  PROVE  CalmInv'
<1>1. \A c \in Backends : pc'[c] = IF c = b THEN to ELSE pc[c]
  BY DEF Goto, Ground, IInv, TypeOK, ProcType
<1>2. gJiaba' = gJiaba /\ dictTrie' = dictTrie /\ version' = version
  BY DEF procVars, envVars
<1>3. Calm'
  BY CalmFrame DEF CalmInv
<1>4. OneCopy'
  BY <1>2 DEF CalmInv, OneCopy
<1>5. \A c \in Backends : AtPlace(c)'
  BY <1>1, <1>2, CalmOthers
<1>. QED
  BY <1>3, <1>4, <1>5 DEF CalmInv

\* What the backend in the critical section has mapped is the named segment.
LEMMA CalmHere ==
  ASSUME Ground, CalmInv, NEW b \in Backends, pc[b] \in Build \cup {"verify", "trie"}
  PROVE  /\ gSegment[b] = shmName /\ shmName \in SegIds
         /\ shm[shmName] \in Segment /\ ~shm[shmName].shrunk
BY DEF CalmInv, AtPlace, Published, Ground, IInv, TypeOK, ShmType

\* A backend whose files were hashed knows versions that existed.
LEMMA CalmHashed ==
  ASSUME Ground, NEW b \in Backends, pc[b] \in Beyond
  PROVE  /\ gsVsValue[b] \in Fingerprint /\ gsVsValue[b] # None
         /\ \A f \in {"dict", "user"} : gsVsValue[b][f] \in 1..version
<1>1. gsVsValue[b] \in Fingerprint /\ files \in Content /\ version \in Nat
  BY DEF Ground, IInv, TypeOK, ProcType, EnvType, Version
<1>2. Hashed(b)
  BY DEF Ground, FilesInv, LoadedAfterHash
<1>3. \A f \in {"dict", "user"} : gsVsValue[b][f] \in 1..files[f] /\ files[f] \in 1..version
  BY <1>2 DEF Ground, FilesInv, FilesTrue, Hashed
<1>. QED
  BY <1>1, <1>3, ParserAssumption

\* Nobody faults, runs out of memory or gives up waiting.
LEMMA CalmStays ==
  ASSUME Undisturbed, overtaken = {}, Ground, CalmInv, NEW b \in Backends, Step(b)
  PROVE  /\ ~Die(b) /\ ~TimeOut(b)
         /\ \A from \in {"construct", "fill", "tag"} : ~BadAlloc(b, from)
<1>1. pc[b] \in Build \cup {"trie"} => ~shm[gSegment[b]].shrunk
  BY CalmHere
<1>2. pc[b] \in {"trie", "reopenShm"} /\ shmName # None => shm[shmName].units = "full"
  BY DEF CalmInv, AtPlace, Settled, Published, Ground, IInv, TypeOK, ShmType
<1>3. pc[b] = "trie" => shm[gSegment[b]].units = "full"
  BY <1>2, CalmHere, NamesAssumption
<1>4. ~Die(b)
  BY <1>1, <1>2, <1>3, NoFault DEF Ground, Build
<1>5. ~TimeOut(b)
  BY DEF TimeOut, Undisturbed, CalmInv, Calm, Ground, LockInv, Handled, IInv, TypeOK, LockType
<1>6. \A from \in {"construct", "fill", "tag"} : ~BadAlloc(b, from)
  BY <1>1 DEF BadAlloc, Undisturbed, Build
<1>. QED
  BY <1>4, <1>5, <1>6

\* Opening, taking and releasing the mutex.
LEMMA CalmLockSteps ==
  ASSUME Undisturbed, overtaken = {}, Ground, CalmInv, NEW b \in Backends,
         OpenLock(b) \/ AcquireTimed(b) \/ Finish(b)
  PROVE  CalmInv'
<1>. USE DEF Busy, Critical, Away
<1>1. PICK to \in {"wait", "check", "idle"} : Goto(b, to)
  BY DEF OpenLock, AcquireTimed, Acquire, Finish
<1>2. \A c \in Backends : pc'[c] = IF c = b THEN to ELSE pc[c]
  BY <1>1 DEF Goto, Ground, IInv, TypeOK, ProcType
<1>3. AtPlace(b)'
  BY <1>2 DEF AtPlace, Build, Loaded
<1>4. \A name, handle, owner : Locks(name, handle, owner) =>
        \A l \in LockIds : lockOwner'[l] \in {owner[l], None}
  BY DEF Locks
<1>5. \A l \in LockIds : lockOwner[l] # Dead
  BY DEF CalmInv, Calm
<1>6. \A c \in Backends : gLock[c] \in {None, lockName}
  BY DEF CalmInv, Calm
<1>7. lockOwner \in [LockIds -> Backends \cup {None, Dead}]
      /\ gLock \in [Backends -> LockIds \cup {None}]
  BY DEF Ground, IInv, TypeOK, LockType
<1>8. CASE OpenLock(b)
  <2>1. PICK l \in LockIds, owner \in [LockIds -> Backends \cup {None, Dead}] :
          /\ Locks(l, [gLock EXCEPT ![b] = l], owner)
          /\ l = lockName \/ lockName = None
          /\ \A k \in LockIds : owner[k] \in {lockOwner[k], None}
    <3>1. CASE lockName # None
      BY <1>7, <1>8, <3>1 DEF OpenLock, OpenOrCreateLock, Ground, IInv, TypeOK, LockType
    <3>2. CASE lockName = None
      <4>. DEFINE k == CHOOSE x \in FreeLocks : TRUE
      <4>1. k \in LockIds
        BY <1>8, <3>2 DEF OpenLock, OpenOrCreateLock, FreeLocks
      <4>2. Locks(k, [gLock EXCEPT ![b] = k], [lockOwner EXCEPT ![k] = None])
        BY <1>8, <3>2 DEF OpenLock, OpenOrCreateLock
      <4>3. [lockOwner EXCEPT ![k] = None] \in [LockIds -> Backends \cup {None, Dead}]
            /\ \A j \in LockIds : [lockOwner EXCEPT ![k] = None][j] \in {lockOwner[j], None}
        BY <1>7
      <4>. HIDE DEF k
      <4>. QED
        BY <3>2, <4>1, <4>2, <4>3
    <3>. QED
      BY <3>1, <3>2
  <2>2. lockName' = l /\ \A c \in Backends : gLock'[c] = IF c = b THEN l ELSE gLock[c]
    BY <1>7, <2>1 DEF Locks
  <2>3. Calm'
    BY <1>2, <1>4, <1>5, <1>6, <1>8, <2>1, <2>2, NamesAssumption DEF OpenLock, CalmInv, Calm
  <2>. QED
    BY <1>1, <1>3, <1>8, <2>3, CalmQuiet DEF OpenLock, envVars, procVars
<1>9. CASE AcquireTimed(b)
  <2>1. Calm'
    BY <1>2, <1>4, <1>5, <1>6, <1>7, <1>9, NamesAssumption
       DEF AcquireTimed, Acquire, Locks, CalmInv, Calm
  <2>. QED
    BY <1>1, <1>3, <1>9, <2>1, CalmQuiet DEF AcquireTimed, Acquire, envVars, procVars
<1>10. CASE Finish(b)
  <2>1. lockName' = lockName /\ \A c \in Backends : gLock'[c] \in {gLock[c], None}
    BY <1>7, <1>10 DEF Finish, Release, Locks
  <2>2. \A l \in LockIds : lockOwner'[l] # Dead
    <3>. DEFINE owner == [lockOwner EXCEPT ![gLock[b]] = None]
    <3>1. \A l \in LockIds : owner[l] \in {lockOwner[l], None}
      BY <1>7
    <3>2. Locks(lockName, [gLock EXCEPT ![b] = None], owner)
      BY <1>10 DEF Finish, Release
    <3>. HIDE DEF owner
    <3>. QED
      BY <1>4, <1>5, <3>1, <3>2, NamesAssumption
  <2>3. Calm'
    BY <1>2, <1>6, <2>1, <2>2, <1>1 DEF CalmInv, Calm
  <2>4. \A c \in Backends \ {b} : dictTrie'[c] = dictTrie[c]
    BY <1>10 DEF Finish, Ground, IInv, TypeOK, ProcType
  <2>. QED
    BY <1>1, <1>3, <1>10, <2>3, <2>4, CalmQuiet DEF Finish, envVars
<1>. QED
  BY <1>8, <1>9, <1>10

\* Hashing and loading: what is loaded is the newest that was ever published.
LEMMA CalmFileSteps ==
  ASSUME Undisturbed, overtaken = {}, Ground, CalmInv, NEW b \in Backends, Step(b),
         \/ \E f \in {"dict", "user"} : HashFile(b, f)
         \/ CheckVersion(b) \/ LoadDict(b) \/ LoadUserDict(b)
  PROVE  CalmInv'
<1>. USE DEF Busy, Critical, Away
<1>0. ~Die(b)
  BY CalmStays
<1>1. ASSUME NEW to \in {"idle", "hash", "openLock"}, Goto(b, to),
             UNCHANGED <<lockVars, shmVars, files, version>>,
             \A c \in Backends \ {b} : dictTrie'[c] = dictTrie[c] /\ gJiaba'[c] = gJiaba[c],
             gJiaba'[b] \in {gJiaba[b], None}
      PROVE  CalmInv'
  <2>1. AtPlace(b)'
    BY <1>1 DEF Goto, Ground, IInv, TypeOK, ProcType, AtPlace, Build, Loaded
  <2>. QED
    BY <1>1, <2>1, CalmFrame, CalmQuiet DEF CalmInv
<1>2. ASSUME NEW f \in {"dict", "user"}, HashFile(b, f) PROVE CalmInv'
  <2>1. Goto(b, "hash")
    BY <1>2 DEF HashFile, Goto, Ground, IInv, TypeOK, ProcType
  <2>. QED
    BY <1>1, <1>2, <2>1 DEF HashFile, envVars
<1>3. CASE CheckVersion(b)
  BY <1>1, <1>3
     DEF CheckVersion, Fail, envVars, procVars, Ground, IInv, TypeOK, ProcType
<1>4. ASSUME NEW from, NEW to, NEW f \in {"dict", "user"},
             <<from, to, f>> \in {<<"load", "loadUser", "dict">>,
                                  <<"loadUser", "construct", "user">>},
             Local(b, from, to), gsVsValue' = gsVsValue,
             dictTrie' = [dictTrie EXCEPT ![b] = [dictTrie[b] EXCEPT ![f] = files[f]]]
      PROVE  CalmInv'
  <2>1. \A c \in Backends : pc'[c] = IF c = b THEN to ELSE pc[c]
    BY <1>4 DEF Local, Goto, Ground, IInv, TypeOK, ProcType
  <2>2. /\ pc[b] = from /\ files' = files /\ version' = version /\ gJiaba' = gJiaba
        /\ shm' = shm /\ shmName' = shmName /\ gSegment' = gSegment
    BY <1>4 DEF Local, envVars, shmVars
  <2>3. /\ \A g \in {"dict", "user"} :
             dictTrie'[b][g] = IF g = f THEN files[f] ELSE dictTrie[b][g]
        /\ \A c \in Backends \ {b} : dictTrie'[c] = dictTrie[c]
    BY <1>4 DEF Ground, IInv, TypeOK, ProcType, Content
  <2>4. \A s \in SegIds : shm[s].tag # None =>
          shm[s].data.dict <= files.dict /\ shm[s].data.user <= files.user
    BY DEF CalmInv, Published
  <2>5. AtPlace(b)'
    <3>1. AtPlace(b) /\ shmName' = shmName
      BY <2>2 DEF CalmInv
    <3>2. CASE f = "dict"
      BY <1>4, <2>1, <2>2, <2>3, <2>4, <3>1, <3>2 DEF AtPlace, Build, Loaded
    <3>3. CASE f = "user"
      BY <1>4, <2>1, <2>2, <2>3, <2>4, <3>1, <3>3 DEF AtPlace, Build, Loaded
    <3>. QED
      BY <3>2, <3>3
  <2>6. Goto(b, to) /\ UNCHANGED <<lockVars, shmVars, files, version>>
    BY <1>4, <2>2 DEF Local
  <2>. QED
    BY <1>4, <2>2, <2>3, <2>5, <2>6, CalmFrame, CalmQuiet DEF CalmInv
<1>5. CASE LoadDict(b)
  <2>1. /\ Local(b, "load", "loadUser")
        /\ dictTrie' = [dictTrie EXCEPT ![b].dict = files.dict]
        /\ gsVsValue' = gsVsValue
    BY <1>0, <1>5, Zenon DEF LoadDict
  <2>. QED
    BY <1>4, <2>1
<1>6. CASE LoadUserDict(b)
  BY <1>0, <1>4, <1>6 DEF LoadUserDict
<1>. QED
  BY <1>2, <1>3, <1>5, <1>6

\* A step that changes no content, but for objects nobody uses any longer.
LEMMA CalmContents ==
  ASSUME Ground, CalmInv, files' = files, version' = version,
         \A s \in SegIds : shm'[s] \in {shm[s], EmptySegment},
         \/ shmName' = None
         \/ shmName' \in SegIds /\ shm'[shmName'].tag = None
         \/ shmName' = shmName /\ (shmName # None => shm'[shmName] = shm[shmName])
  PROVE  Published' /\ NamedIsNewest'
<1>1. Published'
  BY DEF CalmInv, Published, EmptySegment
<1>2. ~EmptySegment.shrunk /\ EmptySegment.tag = None
  BY DEF EmptySegment
<1>3. NamedIsNewest'
  BY <1>2 DEF CalmInv, NamedIsNewest, AtLeast
<1>. QED
  BY <1>1, <1>3

\* A segment made while the name is free.
LEMMA CalmCreate ==
  ASSUME Ground, CalmInv, NEW b \in Backends, NEW to \in {"verify", "load"}, Goto(b, to),
         pc[b] \in Critical, shmName = None, CreateSegment(b),
         UNCHANGED <<lockVars, envVars, procVars>>
  PROVE  CalmInv'
<1>. DEFINE s == CHOOSE x \in FreeSegs : TRUE
            object == [shm EXCEPT ![s] = EmptySegment]
            map == [gSegment EXCEPT ![b] = s]
<1>1. pc'[b] = to
  BY DEF Goto, Ground, IInv, TypeOK, ProcType
<1>2. s \in SegIds /\ Segments(s, map, object)
  BY DEF CreateSegment, FreeSegs
<1>3. /\ \A t \in SegIds : object[t] = IF t = s THEN EmptySegment ELSE shm[t]
      /\ \A c \in Backends : map[c] = IF c = b THEN s ELSE gSegment[c]
  BY DEF Ground, IInv, TypeOK, ShmType
<1>. HIDE DEF s, object, map
<1>4. /\ shmName' = s /\ gSegment'[b] = s /\ shm'[s] = EmptySegment
      /\ \A c \in Backends \ {b} : gSegment'[c] = gSegment[c]
      /\ \A t \in SegIds : shm'[t] \in {shm[t], EmptySegment}
  BY <1>2, <1>3 DEF Segments
<1>5. EmptySegment.tag = None
  BY DEF EmptySegment
<1>6. Published' /\ NamedIsNewest'
  BY <1>2, <1>4, <1>5, CalmContents DEF envVars
<1>7. AtPlace(b)'
  BY <1>1, <1>2, <1>4, <1>5, NamesAssumption DEF AtPlace, Build, Loaded
<1>8. ~Settled
  BY DEF Settled
<1>. QED
  BY <1>4, <1>6, <1>7, <1>8, CalmInside DEF Busy, Critical, Away

\* _chkShMem and what follows when it rejects the segment.
LEMMA CalmCheckSteps ==
  ASSUME Undisturbed, overtaken = {}, Ground, CalmInv, NEW b \in Backends,
         MapSegment(b) \/ Verify(b) \/ RemoveStale(b) \/ CreateOnly(b)
  PROVE  CalmInv'
<1>. USE DEF Busy, Critical, Away
<1>1. ASSUME NEW to \in Busy, to \notin Away, Goto(b, to), pc[b] \in Critical,
             UNCHANGED <<lockVars, envVars, procVars>>, AtPlace(b)',
             NEW seg, Segments(shmName, [gSegment EXCEPT ![b] = seg], shm)
      PROVE  CalmInv'
  <2>1. \A c \in Backends \ {b} : gSegment'[c] = gSegment[c]
    BY <1>1 DEF Segments, Ground, IInv, TypeOK, ShmType
  <2>2. /\ shmName' = shmName /\ (shmName # None => shm'[shmName] = shm[shmName])
        /\ \A s \in SegIds : shm'[s] \in {shm[s], EmptySegment}
    BY <1>1 DEF Segments, Ground, IInv, TypeOK, ShmType
  <2>3. Published' /\ NamedIsNewest'
    BY <1>1, <2>2, CalmContents DEF envVars
  <2>4. Settled => Settled'
    BY <2>2 DEF Settled
  <2>. QED
    BY <1>1, <2>1, <2>2, <2>3, <2>4, CalmInside
<1>2. CASE MapSegment(b)
  <2>1. CASE shmName # None
    <3>1. pc'[b] = "verify"
      BY <1>2 DEF MapSegment, Goto, Ground, IInv, TypeOK, ProcType
    <3>2. Segments(shmName, [gSegment EXCEPT ![b] = shmName], shm)
      BY <1>2, <2>1 DEF MapSegment
    <3>3. shmName' = shmName /\ gSegment'[b] = shmName
      BY <3>2 DEF Segments, Ground, IInv, TypeOK, ShmType
    <3>4. AtPlace(b)'
      BY <2>1, <3>1, <3>3 DEF AtPlace, Build, Loaded
    <3>. QED
      BY <1>1, <1>2, <3>2, <3>4 DEF MapSegment
  <2>2. CASE shmName = None
    BY <1>2, <2>2, CalmCreate DEF MapSegment
  <2>. QED
    BY <2>1, <2>2
<1>3. CASE Verify(b)
  <2>. DEFINE s == shm[shmName]
  <2>1. gSegment[b] = shmName /\ shmName \in SegIds /\ s \in Segment /\ shmName # None
    BY <1>3, CalmHere DEF Verify, CalmInv, AtPlace
  <2>2. pc[b] = "verify" /\ pc[b] \in Beyond
    BY <1>3 DEF Verify, Beyond
  <2>3. CASE /\ s.tag = gsVsValue[b] /\ Goto(b, "trie") /\ UNCHANGED shmVars
    <3>1. Settled
      BY <2>1, <2>2, <2>3, CalmHashed DEF Settled
    <3>2. pc'[b] = "trie"
      BY <2>3 DEF Goto, Ground, IInv, TypeOK, ProcType
    <3>3. AtPlace(b)'
      BY <2>1, <2>3, <3>1, <3>2 DEF AtPlace, Build, Loaded, Settled, shmVars
    <3>. QED
      BY <1>3, <2>3, <3>3, CalmFrame, CalmQuiet DEF Verify, procVars, envVars, CalmInv
  <2>4. CASE /\ ~(s.units # "absent" /\ s.tag = gsVsValue[b]) \/ s.units = "torn"
             /\ Goto(b, "rmStale")
             /\ Segments(shmName, [gSegment EXCEPT ![b] = None], shm)
    <3>1. pc'[b] = "rmStale"
      BY <2>4 DEF Goto, Ground, IInv, TypeOK, ProcType
    <3>2. version = 1 => ~Settled
      <4>. SUFFICES ASSUME version = 1, Settled PROVE FALSE
        OBVIOUS
      <4>1. s.units = "full" /\ \A f \in {"dict", "user"} : s.tag[f] \in 1..1
        BY <2>1 DEF Settled, CalmInv, Published
      <4>2. s.tag \in Fingerprint
        BY <2>1 DEF Segment, Settled
      <4>3. gsVsValue[b] \in Fingerprint
            /\ \A f \in {"dict", "user"} : gsVsValue[b][f] \in 1..1
        BY <2>2, CalmHashed
      <4>4. s.tag = gsVsValue[b]
        BY <4>1, <4>2, <4>3 DEF Fingerprint
      <4>. QED
        BY <2>4, <4>1, <4>4
    <3>3. shmName' = shmName /\ shm'[shmName] = shm[shmName] /\ version' = version
      BY <1>3, <2>1, <2>4 DEF Segments, Verify, envVars
    <3>4. AtPlace(b)'
      BY <3>1, <3>2, <3>3 DEF AtPlace, Settled, Build, Loaded
    <3>. QED
      BY <1>1, <1>3, <2>4, <3>4 DEF Verify
  <2>. QED
    BY <1>3, <2>1, <2>3, <2>4 DEF Verify
<1>4. CASE RemoveStale(b)
  <2>1. pc[b] = "rmStale" /\ pc'[b] = "create"
    BY <1>4 DEF RemoveStale, Goto, Ground, IInv, TypeOK, ProcType
  <2>2. /\ shmName' = None /\ gSegment' = gSegment
        /\ \A s \in SegIds : shm'[s] \in {shm[s], EmptySegment}
    BY <1>4 DEF RemoveStale, RemoveShm, Segments
  <2>3. Published' /\ NamedIsNewest'
    BY <1>4, <2>2, CalmContents DEF RemoveStale, envVars
  <2>4. AtPlace(b)'
    BY <2>1, <2>2 DEF AtPlace, Build, Loaded
  <2>5. version = 1 => ~Settled
    BY <2>1 DEF CalmInv, AtPlace
  <2>. QED
    BY <1>4, <2>1, <2>2, <2>3, <2>4, <2>5, CalmInside DEF RemoveStale
<1>5. CASE CreateOnly(b)
  <2>1. shmName = None
    BY <1>5 DEF CreateOnly, CalmInv, AtPlace
  <2>. QED
    BY <1>5, <2>1, CalmCreate DEF CreateOnly
<1>. QED
  BY <1>2, <1>3, <1>4, <1>5

\* A write to the named segment, by the one who builds it.
LEMMA CalmSave ==
  ASSUME Ground, CalmInv, NEW b \in Backends, NEW from \in Loaded,
         NEW to \in {"fill", "tag", "trie", "shrink"}, NEW segment \in Segment,
         Save(b, from, to, segment),
         ~segment.shrunk, segment.tag # None <=> to \in {"trie", "shrink"},
         segment.data = dictTrie[b],
         to # "fill" => segment.units = "full",
         to \in {"trie", "shrink"} => segment.tag = gsVsValue[b]
  PROVE  CalmInv'
<1>. USE DEF Busy, Critical, Away, Loaded, Build
<1>. DEFINE object == [shm EXCEPT ![gSegment[b]] = segment]
<1>1. pc[b] = from /\ pc'[b] = to /\ gSegment[b] = shmName /\ shmName \in SegIds
      /\ shmName # None
  BY CalmHere DEF Save, Goto, Ground, IInv, TypeOK, ProcType, CalmInv, AtPlace
<1>2. /\ \A s \in SegIds : object[s] = IF s = shmName THEN segment ELSE shm[s]
      /\ Segments(shmName, gSegment, object)
  BY <1>1 DEF Save, Ground, IInv, TypeOK, ShmType
<1>. HIDE DEF object
<1>3. /\ shmName' = shmName /\ gSegment' = gSegment /\ shm'[shmName] = segment
      /\ \A s \in SegIds \ {shmName} : shm'[s] \in {shm[s], EmptySegment}
  BY <1>1, <1>2 DEF Segments
<1>4. files' = files /\ version' = version /\ dictTrie' = dictTrie /\ gsVsValue' = gsVsValue
  BY DEF Save, envVars, procVars
<1>5. ~EmptySegment.shrunk /\ EmptySegment.tag = None
  BY DEF EmptySegment
<1>6. segment.tag # None =>
        \A f \in {"dict", "user"} :
          segment.tag[f] \in 1..version /\ segment.data[f] <= files[f]
  <2>. SUFFICES ASSUME segment.tag # None
                PROVE  \A f \in {"dict", "user"} :
                         segment.tag[f] \in 1..version /\ segment.data[f] <= files[f]
    OBVIOUS
  <2>1. segment.tag = gsVsValue[b]
    OBVIOUS
  <2>2. \A f \in {"dict", "user"} : gsVsValue[b][f] \in 1..version
    BY <1>1, CalmHashed DEF Beyond
  <2>3. dictTrie[b].dict <= files.dict /\ dictTrie[b].user <= files.user
    BY <1>1 DEF Ground, FilesInv, LoadedAfterHash
  <2>. QED
    BY <2>1, <2>2, <2>3
<1>7. Published'
  BY <1>3, <1>4, <1>5, <1>6 DEF CalmInv, Published
<1>8. NamedIsNewest'
  <2>. SUFFICES ASSUME NEW s \in SegIds, segment.tag # None, shm'[s].tag # None
                PROVE  AtLeast(segment.data, shm'[s].data)
    BY <1>1, <1>3 DEF NamedIsNewest
  <2>1. dictTrie[b].dict \in Nat /\ dictTrie[b].user \in Nat
    BY DEF Ground, IInv, TypeOK, ProcType, Content, Version
  <2>2. CASE s = shmName
    BY <1>3, <2>1, <2>2 DEF AtLeast
  <2>3. CASE s # shmName
    <3>1. shm'[s] = shm[s] /\ shm[s].tag # None
      BY <1>3, <1>5, <2>3
    <3>2. shm[s].data.dict <= dictTrie[b].dict /\ shm[s].data.user <= dictTrie[b].user
      BY <1>1, <3>1 DEF CalmInv, AtPlace
    <3>3. shm[s].data.dict \in Nat /\ shm[s].data.user \in Nat
      BY DEF Ground, IInv, TypeOK, ShmType, Segment, Content, Version
    <3>. QED
      BY <2>1, <3>1, <3>2, <3>3 DEF AtLeast
  <2>. QED
    BY <2>2, <2>3
<1>9. AtPlace(b)'
  <2>1. to \in {"fill", "tag"} => \A s \in SegIds : shm'[s].tag # None =>
          shm[s].tag # None /\ shm'[s].data = shm[s].data
    BY <1>3, <1>5
  <2>2. AtPlace(b)
    BY DEF CalmInv
  <2>. QED
    BY <1>1, <1>3, <1>4, <2>1, <2>2 DEF AtPlace, Settled
<1>10. ~Settled
  BY <1>1 DEF CalmInv, AtPlace, Settled
<1>. QED
  BY <1>1, <1>3, <1>7, <1>8, <1>9, <1>10, CalmInside DEF Save

\* The steps of _saveToShm.
LEMMA CalmSaveSteps ==
  ASSUME Undisturbed, overtaken = {}, Ground, CalmInv, NEW b \in Backends, Step(b),
         SaveConstruct(b) \/ SaveUnits(b) \/ SaveVersion(b)
  PROVE  CalmInv'
<1>. DEFINE s == shm[gSegment[b]]
<1>0. ~Die(b) /\ \A from \in {"construct", "fill", "tag"} : ~BadAlloc(b, from)
  BY CalmStays
<1>1. pc[b] \in Loaded
  BY <1>0 DEF SaveConstruct, SaveUnits, SaveVersion, Save, Loaded
<1>2. gSegment[b] = shmName /\ s \in Segment /\ ~s.shrunk /\ s.tag = None
  BY <1>1, CalmHere DEF Loaded, Build, CalmInv, AtPlace
<1>3. AtPlace(b)
  BY DEF CalmInv
<1>4. dictTrie[b] \in Content /\ gsVsValue[b] \in Fingerprint /\ gsVsValue[b] # None
  BY <1>1, CalmHashed DEF Beyond, Busy, Critical, Loaded, Ground, IInv, TypeOK, ProcType
<1>5. CASE SaveConstruct(b)
  <2>. DEFINE new == [s EXCEPT !.units = "filling", !.data = dictTrie[b]]
  <2>1. new \in Segment /\ ~new.shrunk /\ new.tag = None /\ new.data = dictTrie[b]
    BY <1>2, <1>4 DEF Segment
  <2>2. Save(b, "construct", "fill", new)
    BY <1>0, <1>5 DEF SaveConstruct
  <2>. HIDE DEF new
  <2>. QED
    BY <2>1, <2>2, CalmSave DEF Loaded
<1>6. CASE SaveUnits(b)
  <2>. DEFINE new == [s EXCEPT !.units = "full"]
  <2>1. Save(b, "fill", "tag", new)
    BY <1>0, <1>2, <1>6 DEF SaveUnits
  <2>2. s.data = dictTrie[b]
    BY <1>2, <1>3, <2>1 DEF AtPlace, Save
  <2>3. new \in Segment /\ ~new.shrunk /\ new.tag = None /\ new.data = dictTrie[b]
        /\ new.units = "full"
    BY <1>2, <2>2 DEF Segment
  <2>. HIDE DEF new
  <2>. QED
    BY <2>1, <2>3, CalmSave DEF Loaded
<1>7. CASE SaveVersion(b)
  <2>. DEFINE new == [s EXCEPT !.tag = gsVsValue[b]]
              to == IF Shrinks THEN "shrink" ELSE "trie"
  <2>1. Save(b, "tag", to, new)
    BY <1>0, <1>7 DEF SaveVersion
  <2>2. s.data = dictTrie[b] /\ s.units = "full"
    BY <1>2, <1>3, <2>1 DEF AtPlace, Save
  <2>3. new \in Segment /\ ~new.shrunk /\ new.tag = gsVsValue[b] /\ new.data = dictTrie[b]
        /\ new.units = "full"
    BY <1>2, <1>4, <2>2 DEF Segment
  <2>4. to \in {"trie", "shrink"}
    OBVIOUS
  <2>. HIDE DEF new, to
  <2>. QED
    BY <1>4, <2>1, <2>3, <2>4, CalmSave DEF Loaded
<1>. QED
  BY <1>5, <1>6, <1>7

\* shrink_to_fit finds the segment that was saved, and so does who opens it again.
LEMMA CalmShrinkSteps ==
  ASSUME Undisturbed, overtaken = {}, Ground, CalmInv, NEW b \in Backends, Step(b), Shrink(b) \/ ReopenShm(b)
  PROVE  CalmInv'
<1>. USE DEF Busy, Critical, Away
<1>0. ~Die(b)
  BY CalmStays
<1>1. pc[b] \in {"shrink", "reopenShm"}
  BY DEF Shrink, ReopenShm, Local
<1>2. shmName \in SegIds /\ shmName # None /\ shm[shmName].tag # None
  BY <1>1 DEF CalmInv, AtPlace, Settled, Ground, IInv, TypeOK, ShmType
<1>3. PICK to \in {"reopenShm", "trie"}, seg \in {None, shmName} :
        /\ Goto(b, to)
        /\ Segments(shmName, [gSegment EXCEPT ![b] = seg], shm)
        /\ to = "trie" => seg = shmName
        /\ UNCHANGED <<lockVars, envVars, procVars>>
  <2>1. CASE Shrink(b)
    <3>1. [s \in SegIds |-> IF s = shmName /\ shm[s].tag = None
                            THEN [shm[s] EXCEPT !.shrunk = TRUE] ELSE shm[s]] = shm
      BY <1>2 DEF Ground, IInv, TypeOK, ShmType
    <3>. QED
      BY <2>1, <3>1 DEF Shrink
  <2>2. CASE ReopenShm(b)
    BY <1>0, <1>2, <2>2 DEF ReopenShm
  <2>. QED
    BY <2>1, <2>2
<1>4. pc'[b] = to
  BY <1>3 DEF Goto, Ground, IInv, TypeOK, ProcType
<1>5. /\ shmName' = shmName /\ shm'[shmName] = shm[shmName] /\ gSegment'[b] = seg
      /\ \A c \in Backends \ {b} : gSegment'[c] = gSegment[c]
      /\ \A s \in SegIds : shm'[s] \in {shm[s], EmptySegment}
  BY <1>2, <1>3 DEF Segments, Ground, IInv, TypeOK, ShmType
<1>6. Published' /\ NamedIsNewest'
  BY <1>3, <1>5, CalmContents DEF envVars
<1>7. AtPlace(b)'
  BY <1>2, <1>3, <1>4, <1>5 DEF AtPlace, Settled, Build, Loaded
<1>8. Settled'
  BY <1>2, <1>5 DEF Settled
<1>. QED
  BY <1>1, <1>3, <1>5, <1>6, <1>7, <1>8, CalmInside

\* The parser is built over the named segment, that is complete.
LEMMA CalmTrieStep ==
  ASSUME Undisturbed, overtaken = {}, Ground, CalmInv, NEW b \in Backends, Step(b), BuildTrie(b)
  PROVE  CalmInv'
<1>. DEFINE parser == [seg |-> gSegment[b], units |-> shm[gSegment[b]].units,
                       data |-> shm[gSegment[b]].data, singles |-> dictTrie[b].user]
<1>0. ~Die(b)
  BY CalmStays
<1>1. pc[b] = "trie"
  BY <1>0 DEF BuildTrie, Local
<1>2. gSegment[b] = shmName /\ shmName \in SegIds /\ Settled /\ shm[shmName].units = "full"
  BY <1>1, CalmHere DEF CalmInv, AtPlace, Published, Settled
<1>3. /\ gJiaba' = [gJiaba EXCEPT ![b] = parser]
      /\ Goto(b, "unlock")
      /\ UNCHANGED <<lockVars, shmVars, envVars, dictTrie>>
  BY <1>0, <1>2 DEF BuildTrie
<1>4. \A c \in Backends : gJiaba'[c] = IF c = b THEN parser ELSE gJiaba[c]
  BY <1>3 DEF Ground, IInv, TypeOK, ProcType
<1>5. parser.units = "full" /\ parser.seg = shmName
  BY <1>2
<1>. HIDE DEF parser
<1>6. AtPlace(b)'
  BY <1>3 DEF Goto, Ground, IInv, TypeOK, ProcType, AtPlace, Build, Loaded
<1>. QED
  BY <1>2, <1>3, <1>4, <1>5, <1>6, CalmFrame, CalmQuiet
     DEF envVars, CalmInv, Busy, Critical, Away

\* Every step inside init().
LEMMA CalmStep ==
  ASSUME Undisturbed, overtaken = {}, Ground, CalmInv, NEW b \in Backends, Step(b)
  PROVE  CalmInv'
<1>1. pc[b] \notin Away /\ ~TimeOut(b)
  BY CalmStays DEF CalmInv, Calm
<1>. QED
  BY <1>1, CalmLockSteps, CalmFileSteps, CalmCheckSteps, CalmSaveSteps, CalmShrinkSteps,
     CalmTrieStep
     DEF Step, Away, ResetRemoveLock, ResetRemoveShm, StealRemoveLock, StealReopenLock,
         AcquireBlocking, Acquire, NotOK, GiveUp, Unwind, CatchRemoveLock, CatchRemoveShm

\* A session that ends owns no mutex and leaves the named segment alone.
LEMMA CalmDisconnect ==
  ASSUME Ground, CalmInv, NEW b \in Backends, Disconnect(b)
  PROVE  CalmInv'
<1>. USE DEF Busy, Critical, Away
<1>1. pc[b] = "idle" /\ Exit({b}, "idle") /\ UNCHANGED envVars
  BY DEF Disconnect
<1>2. \A c \in Backends :
        /\ pc'[c] = pc[c]
        /\ gLock'[c] = IF c = b THEN None ELSE gLock[c]
        /\ gSegment'[c] = IF c = b THEN None ELSE gSegment[c]
        /\ gJiaba'[c] = IF c = b THEN None ELSE gJiaba[c]
        /\ dictTrie'[c] = IF c = b THEN NothingLoaded ELSE dictTrie[c]
  BY <1>1 DEF Exit, Locks, Segments
<1>3. \A l \in LockIds : lockOwner[l] # b
  BY <1>1 DEF Ground, LockInv, LockDiscipline
<1>4. lockName' = lockName /\ \A l \in LockIds : lockOwner'[l] \in {lockOwner[l], None}
  BY <1>1, <1>3 DEF Exit, Locks
<1>5. Calm'
  BY <1>2, <1>4, NamesAssumption DEF CalmInv, Calm
<1>6. /\ shmName' = shmName /\ (shmName # None => shm'[shmName] = shm[shmName])
      /\ \A s \in SegIds : shm'[s] \in {shm[s], EmptySegment}
  BY <1>1 DEF Exit, Segments, Ground, IInv, TypeOK, ShmType
<1>7. version' = version /\ files' = files
  BY <1>1 DEF envVars
<1>8. Published' /\ NamedIsNewest'
  BY <1>6, <1>7, CalmContents
<1>9. OneCopy'
  BY <1>2, <1>6, <1>7 DEF CalmInv, OneCopy, Settled
<1>10. ASSUME NEW c \in Backends PROVE AtPlace(c)'
  <2>1. CASE c = b
    BY <1>1, <1>2, <2>1 DEF AtPlace, Build, Loaded
  <2>2. CASE c # b
    <3>1. AtPlace(c)
      BY DEF CalmInv
    <3>2. \A s \in SegIds : shm'[s].tag # None => shm[s].tag # None /\ shm'[s] = shm[s]
      BY <1>6 DEF EmptySegment
    <3>. QED
      BY <1>2, <1>6, <1>7, <2>2, <3>1, <3>2 DEF AtPlace, Settled, Build, Loaded
  <2>. QED
    BY <2>1, <2>2
<1>. QED
  BY <1>5, <1>8, <1>9, <1>10 DEF CalmInv

\* A newer file makes nothing false that is said of the older ones.
LEMMA CalmReplace ==
  ASSUME Ground, CalmInv, NEW f \in {"dict", "user"}, ReplaceFile(f)
  PROVE  CalmInv'
<1>1. version \in Nat \ {0} /\ version' = version + 1
      /\ \A g \in {"dict", "user"} :
           files[g] \in Nat /\ files'[g] \in Nat /\ files[g] <= files'[g]
  BY DEF ReplaceFile, Ground, IInv, TypeOK, EnvType, Version, Content, FilesInv, FilesTrue
<1>2. UNCHANGED <<lockVars, shmVars, procVars, pc>>
  BY DEF ReplaceFile
<1>3. Calm' /\ NamedIsNewest'
  BY <1>2 DEF CalmInv, Calm, NamedIsNewest, AtLeast, lockVars, shmVars
<1>4. Published'
  <2>1. \A s \in SegIds, g \in {"dict", "user"} :
          shm[s].data[g] \in Nat /\ (shm[s].data[g] <= files[g] => shm[s].data[g] <= files'[g])
    BY <1>1 DEF Ground, IInv, TypeOK, ShmType, Segment, Content, Version
  <2>2. \A s \in SegIds, g \in {"dict", "user"} :
          shm[s].tag[g] \in 1..version => shm[s].tag[g] \in 1..version'
    BY <1>1
  <2>. QED
    BY <1>2, <2>1, <2>2 DEF CalmInv, Published, shmVars
<1>5. OneCopy'
  BY <1>1, <1>2 DEF CalmInv, OneCopy, procVars
<1>6. \A c \in Backends : AtPlace(c)'
  BY <1>1, <1>2 DEF CalmInv, AtPlace, Settled, shmVars, procVars
<1>. QED
  BY <1>3, <1>4, <1>5, <1>6 DEF CalmInv

\* The surroundings of an undisturbed system.
LEMMA CalmSurroundings ==
  ASSUME Undisturbed, overtaken = {}, Ground, CalmInv, Surroundings PROVE CalmInv'
<1>1. ASSUME NEW b \in Backends, Start(b) PROVE CalmInv'
  <2>1. Goto(b, "hash") /\ UNCHANGED <<lockVars, shmVars, files, version, gJiaba, dictTrie>>
    BY <1>1 DEF Start, Local, envVars
  <2>2. AtPlace(b)'
    BY <2>1 DEF Goto, Ground, IInv, TypeOK, ProcType, AtPlace, Build, Loaded
  <2>. QED
    BY <2>1, <2>2, CalmFrame, CalmQuiet DEF CalmInv, Busy, Away
<1>2. ASSUME NEW b \in Backends PROVE ~Reset(b) /\ ~Kill(b)
  BY DEF Reset, Kill, Undisturbed, Ground, IInv, TypeOK, EnvType
<1>3. ASSUME NEW c \in Clusters PROVE ~Restart(c)
  BY ClusterAssumption DEF Restart, CalmInv, Calm, Away
<1>4. ASSUME NEW f \in {"dict", "user"} PROVE ~RemoveFile(f)
  BY DEF RemoveFile, Undisturbed
<1>. QED
  BY <1>1, <1>2, <1>3, <1>4, CalmDisconnect, CalmReplace DEF Surroundings

\* As long as no waiter was overtaken, all invariants together are inductive.
LEMMA NextCalmInv ==
  Undisturbed /\ overtaken = {} /\ Ground /\ CalmInv /\ [Next]_vars => CalmInv'
<1>1. ASSUME CalmInv, UNCHANGED vars PROVE CalmInv'
  BY <1>1 DEF CalmInv, Calm, Published, NamedIsNewest, AtLeast, OneCopy, AtPlace, Settled,
              vars, lockVars, shmVars, envVars, procVars
<1>. QED
  BY <1>1, CalmStep, CalmSurroundings DEF Next

\* What the other invariants say holds without regard to waiters.
LEMMA NextGround == Undisturbed /\ Ground /\ [Next]_vars => Ground'
BY NextInv, NextLockInv, NextFilesInv DEF Ground, IInv, Undisturbed

\* All invariants hold before the first call.
LEMMA InitCalmInv == Init => Ground /\ CalmInv /\ overtaken = {}
<1>. SUFFICES ASSUME Init PROVE Ground /\ CalmInv /\ overtaken = {}
  OBVIOUS
<1>1. Ground
  BY InitFreshInv, InitLockInv DEF Ground, Below
<1>2. CalmInv /\ overtaken = {}
  BY NamesAssumption
     DEF Init, CalmInv, Calm, Away, Published, EmptySegment, NamedIsNewest, OneCopy,
         AtPlace, Build, Loaded
<1>. QED
  BY <1>1, <1>2

\* Every step leaves the mutexes and the waiters alone, or sets them together.
LEMMA LocksOrNot ==
  ASSUME Next
  PROVE  UNCHANGED lockVars \/ \E name, handle, owner : Locks(name, handle, owner)
<1>1. ASSUME NEW gone, NEW label, Exit(gone, label)
      PROVE  \E name, handle, owner : Locks(name, handle, owner)
  BY <1>1 DEF Exit
<1>2. ASSUME NEW b \in Backends, Step(b)
      PROVE  UNCHANGED lockVars \/ \E name, handle, owner : Locks(name, handle, owner)
  <2>1. CASE \/ ResetRemoveLock(b) \/ ResetRemoveShm(b) \/ CheckVersion(b)
             \/ \E f \in {"dict", "user"} : HashFile(b, f)
             \/ OpenLock(b) \/ AcquireTimed(b) \/ TimeOut(b)
             \/ StealRemoveLock(b) \/ StealReopenLock(b) \/ AcquireBlocking(b)
    BY <2>1
       DEF ResetRemoveLock, ResetRemoveShm, CheckVersion, HashFile, OpenLock, AcquireTimed,
           TimeOut, StealRemoveLock, StealReopenLock, AcquireBlocking, Acquire, RemoveLock,
           OpenOrCreateLock, Local
  <2>2. CASE MapSegment(b) \/ Verify(b) \/ RemoveStale(b) \/ CreateOnly(b)
    BY <2>2 DEF MapSegment, Verify, RemoveStale, CreateOnly
  <2>3. CASE \/ LoadDict(b) \/ LoadUserDict(b) \/ SaveConstruct(b) \/ SaveUnits(b)
             \/ SaveVersion(b) \/ Shrink(b) \/ ReopenShm(b) \/ BuildTrie(b)
    BY <1>1, <2>3
       DEF LoadDict, LoadUserDict, SaveConstruct, SaveUnits, SaveVersion, Shrink, ReopenShm,
           BuildTrie, Save, BadAlloc, Local, Die
  <2>4. CASE \/ Finish(b) \/ NotOK(b) \/ GiveUp(b) \/ Unwind(b)
             \/ CatchRemoveLock(b) \/ CatchRemoveShm(b)
    BY <2>4
       DEF Finish, NotOK, GiveUp, Unwind, CatchRemoveLock, CatchRemoveShm, Release, RemoveLock
  <2>. QED
    BY <1>2, <2>1, <2>2, <2>3, <2>4 DEF Step
<1>3. CASE Surroundings
  BY <1>1, <1>3
     DEF Surroundings, Start, Reset, Disconnect, Kill, Restart, ReplaceFile, RemoveFile, Local
<1>. QED
  BY <1>2, <1>3 DEF Next

\* If the owners before it are done in time, no waiter is overtaken.
LEMMA NobodyOvertaken ==
  ~LongQueue /\ overtaken = {} /\ [Next]_vars => overtaken' = {}
BY LocksOrNot DEF Locks, lockVars, vars

\* one backend inside at most, and nobody about to take the mutex away from it
Unforced == CalmInv /\ overtaken = {}

\* The invariant holds in every reachable state of an undisturbed system whose waiters
\* never wait too long.
LEMMA CalmHolds ==
  ASSUME Undisturbed, ~LongQueue PROVE Spec => [](Ground /\ Unforced)
<1>1. Ground /\ Unforced /\ [Next]_vars => Ground' /\ Unforced'
  BY NextCalmInv, NextGround, NobodyOvertaken DEF Unforced
<1>2. Init => Ground /\ Unforced
  BY InitCalmInv DEF Unforced
<1>. QED
  BY <1>1, <1>2, PTL DEF Spec

\* Undisturbed, and if nobody waits for six seconds, the dictionary found under the name
\* is never older than one still in use: a backend that hashed old files does not put an
\* old dictionary in the place of a newer one.
THEOREM NamedSegmentIsNewest ==
  ASSUME Undisturbed, ~LongQueue PROVE Spec => []NamedIsNewest
<1>1. Unforced => NamedIsNewest
  BY DEF Unforced, CalmInv
<1>. QED
  BY <1>1, CalmHolds, PTL

\* Undisturbed, and if nobody waits for six seconds, parsers are complete and nobody
\* faults, also with shrink_to_fit, whatever files are replaced.
THEOREM ShrinkingIsHarmless ==
  ASSUME Undisturbed, ~LongQueue PROVE Spec => [](ReadyComplete /\ NoSelfDeath)
<1>1. Unforced => ReadyComplete /\ NoSelfDeath
  BY DEF Unforced, CalmInv, Calm, Away, OneCopy, ReadyComplete, NoSelfDeath
<1>. QED
  BY <1>1, CalmHolds, PTL

-----------------------------------------------------------------------------
(* Waiters that are overtaken take the mutex away from its owner, and then   *)
(* it does not exclude any more.  But to be overtaken they must have seen    *)
(* somebody release it, that somebody has left a dictionary behind, and      *)
(* until a file changes whoever comes finds that one and is content.         *)

\* where everybody is once there is a dictionary of these files
Reading == {"idle", "hash", "openLock", "wait", "steal", "reopenLock", "block",
            "check", "verify", "shrink", "reopenShm", "trie", "unlock"}

\* there is one segment, and who has one mapped has mapped that; only the one that
\* built it may not be through with it
Served ==
  /\ shm[shmName].units = "full"
  /\ \A f \in {"dict", "user"} : shm[shmName].tag[f] = 1
  /\ \A b \in Backends :
       /\ pc[b] \in Reading
       /\ pc[b] \in {"verify", "trie"} => gSegment[b] = shmName
       /\ gJiaba[b] # None => gJiaba[b].units = "full" /\ gJiaba[b].seg = shmName
  /\ \A a, b \in Backends :
       pc[a] \in {"shrink", "reopenShm"} /\ pc[b] \in {"shrink", "reopenShm"} => a = b

\* before there is a dictionary the mutex excludes, afterwards it need not
FirstInv ==
  version = 1 => (Settled /\ Served) \/ Unforced

\* When the first dictionary is there, everybody else is before or at the mutex.
LEMMA CalmServes ==
  ASSUME Ground, CalmInv, version = 1, Settled PROVE Served
<1>1. shmName \in SegIds /\ shm[shmName] \in Segment
  BY DEF Settled, Ground, IInv, TypeOK, ShmType
<1>2. shm[shmName].units = "full" /\ \A f \in {"dict", "user"} : shm[shmName].tag[f] = 1
  BY <1>1 DEF CalmInv, Published, Settled
<1>3. ASSUME NEW b \in Backends
      PROVE  /\ pc[b] \in Reading
             /\ pc[b] \in {"verify", "trie"} => gSegment[b] = shmName
             /\ gJiaba[b] # None => gJiaba[b].units = "full" /\ gJiaba[b].seg = shmName
  <2>1. pc[b] \in Busy \cup {"idle", "dead"} /\ pc[b] \notin Away
    BY DEF CalmInv, Calm, Ground, IInv, TypeOK, ProcType
  <2>2. AtPlace(b)
    BY DEF CalmInv
  <2>3. pc[b] \notin Build \cup {"rmStale", "create"}
    BY <2>2 DEF AtPlace, Settled
  <2>4. pc[b] \in Reading
    BY <2>1, <2>3 DEF Busy, Critical, Away, Build, Loaded, Reading
  <2>. QED
    BY <2>2, <2>4 DEF AtPlace, CalmInv, OneCopy
<1>4. OneInside
  BY CalmExcludes DEF CalmInv
<1>. QED
  BY <1>2, <1>3, <1>4 DEF Served, OneInside, Critical

\* A step of b to that place leaves the dictionary where it is and b with what it may have.
Keeps(b, to) ==
  /\ Goto(b, to)
  /\ shmName' = shmName /\ shm'[shmName] = shm[shmName]
  /\ \A c \in Backends \ {b} : gSegment'[c] = gSegment[c] /\ gJiaba'[c] = gJiaba[c]
  /\ to \in {"verify", "trie"} => gSegment'[b] = shmName
  /\ to \in {"shrink", "reopenShm"} => pc[b] \in {"shrink", "reopenShm"}
  /\ gJiaba'[b] # None => gJiaba'[b].units = "full" /\ gJiaba'[b].seg = shmName

\* After such a step there is still one dictionary.
LEMMA ServedFrame ==
  ASSUME Ground, Served, Settled, NEW b \in Backends, NEW to \in Reading, Keeps(b, to)
  PROVE  FirstInv'
<1>1. \A c \in Backends : pc'[c] = IF c = b THEN to ELSE pc[c]
  BY DEF Keeps, Goto, Ground, IInv, TypeOK, ProcType
<1>2. Settled'
  BY DEF Keeps, Settled
<1>3. ASSUME NEW c \in Backends
      PROVE  /\ pc'[c] \in Reading
             /\ pc'[c] \in {"verify", "trie"} => gSegment'[c] = shmName
             /\ gJiaba'[c] # None => gJiaba'[c].units = "full" /\ gJiaba'[c].seg = shmName
  BY <1>1 DEF Keeps, Served
<1>4. \A c, d \in Backends :
        pc'[c] \in {"shrink", "reopenShm"} /\ pc'[d] \in {"shrink", "reopenShm"} => c = d
  BY <1>1 DEF Keeps, Served
<1>5. Served'
  BY <1>3, <1>4 DEF Keeps, Served
<1>. QED
  BY <1>2, <1>5 DEF FirstInv

\* Mapping or leaving the segment with the name does not change what is in it.
LEMMA NamedStays ==
  ASSUME Ground, Settled, NEW map, Segments(shmName, map, shm)
  PROVE  shmName' = shmName /\ shm'[shmName] = shm[shmName] /\ gSegment' = map
BY DEF Segments, Settled, Ground, IInv, TypeOK, ShmType

\* A backend that finds the dictionary is content with it, reads it, and does not fault.
LEMMA ServedStep ==
  ASSUME Ground, Served, Settled, version = 1, NEW b \in Backends, Step(b)
  PROVE  FirstInv'
<1>. USE DEF Reading
<1>1. /\ shmName \in SegIds /\ shmName # None /\ shm[shmName] \in Segment
      /\ shm[shmName].tag # None /\ shm[shmName].units = "full"
      /\ pc[b] \in Reading
      /\ pc[b] \in {"verify", "trie"} => gSegment[b] = shmName
  BY DEF Settled, Served, Ground, IInv, TypeOK, ShmType
<1>2. gSegment \in [Backends -> SegIds \cup {None}] /\ shm \in [SegIds -> Segment]
      /\ gJiaba \in [Backends -> Parser \cup {None}] /\ gsVsValue \in [Backends -> Fingerprint]
  BY DEF Ground, IInv, TypeOK, ShmType, ProcType
<1>3. \A c \in Backends :
        gJiaba[c] # None => gJiaba[c].units = "full" /\ gJiaba[c].seg = shmName
  BY DEF Served
<1>4. ~Die(b)
  <2>1. shm[shmName].units # "absent"
    BY <1>1
  <2>2. pc[b] # "fill" /\ (pc[b] = "trie" => shm[gSegment[b]].units = "full")
    BY <1>1
  <2>. QED
    BY <2>1, <2>2, NoFault DEF Ground
<1>5. ASSUME NEW to \in Reading \ {"verify", "trie", "shrink", "reopenShm"}, Goto(b, to),
             UNCHANGED shmVars,
             \A c \in Backends \ {b} : gJiaba'[c] = gJiaba[c],
             gJiaba'[b] \in {gJiaba[b], None}
      PROVE  FirstInv'
  <2>1. Keeps(b, to)
    BY <1>3, <1>5 DEF Keeps, shmVars
  <2>. QED
    BY <1>5, <2>1, ServedFrame
<1>6. CASE \/ \E f \in {"dict", "user"} : HashFile(b, f)
           \/ CheckVersion(b)
  <2>1. CASE CheckVersion(b)
    <3>1. (\A c \in Backends \ {b} : gJiaba'[c] = gJiaba[c]) /\ gJiaba'[b] \in {gJiaba[b], None}
      BY <1>2, <2>1 DEF CheckVersion, Fail, procVars
    <3>2. Goto(b, "idle") \/ Goto(b, "openLock")
      BY <2>1 DEF CheckVersion, Fail
    <3>. QED
      BY <1>5, <2>1, <3>1, <3>2 DEF CheckVersion
  <2>2. ASSUME NEW f \in {"dict", "user"}, HashFile(b, f) PROVE FirstInv'
    <3>1. Goto(b, "hash")
      BY <2>2 DEF HashFile, Goto, Ground, IInv, TypeOK, ProcType
    <3>. QED
      BY <1>5, <2>2, <3>1 DEF HashFile
  <2>. QED
    BY <1>6, <2>1, <2>2
<1>7. CASE \/ OpenLock(b) \/ AcquireTimed(b) \/ TimeOut(b)
           \/ StealRemoveLock(b) \/ StealReopenLock(b) \/ AcquireBlocking(b) \/ Finish(b)
  BY <1>5, <1>7
     DEF OpenLock, AcquireTimed, TimeOut, StealRemoveLock, StealReopenLock, AcquireBlocking,
         Acquire, Finish, Local, procVars
<1>8. CASE MapSegment(b)
  <2>1. Segments(shmName, [gSegment EXCEPT ![b] = shmName], shm) /\ Goto(b, "verify")
        /\ gJiaba' = gJiaba
    BY <1>1, <1>8 DEF MapSegment, procVars
  <2>2. gJiaba[b] = None
    BY <1>8, NoParser DEF Ground, MapSegment
  <2>3. gSegment' = [gSegment EXCEPT ![b] = shmName]
        /\ shmName' = shmName /\ shm'[shmName] = shm[shmName]
    BY <2>1, NamedStays
  <2>4. Keeps(b, "verify")
    BY <1>2, <2>1, <2>2, <2>3 DEF Keeps
  <2>. QED
    BY <2>4, ServedFrame
<1>9. CASE Verify(b)
  <2>1. pc[b] = "verify" /\ gSegment[b] = shmName /\ gJiaba[b] = None
    BY <1>1, <1>9, NoParser DEF Ground, Verify
  <2>2. shm[shmName].tag = gsVsValue[b]
    <3>1. \A f \in {"dict", "user"} : gsVsValue[b][f] = 1
      BY <2>1, CalmHashed DEF Beyond, Busy, Critical
    <3>2. shm[shmName].tag \in Fingerprint /\ gsVsValue[b] \in Fingerprint
      BY <1>1, <1>2 DEF Segment
    <3>. QED
      BY <3>1, <3>2 DEF Served, Fingerprint
  <2>3. Goto(b, "trie") /\ UNCHANGED <<shmVars, procVars>>
    BY <1>1, <1>9, <2>1, <2>2 DEF Verify
  <2>4. Keeps(b, "trie")
    BY <2>1, <2>3 DEF Keeps, shmVars, procVars
  <2>. QED
    BY <2>4, ServedFrame
<1>10. CASE Shrink(b)
  <2>1. [s \in SegIds |-> IF s = shmName /\ shm[s].tag = None
                          THEN [shm[s] EXCEPT !.shrunk = TRUE] ELSE shm[s]] = shm
    BY <1>1, <1>2
  <2>2. Segments(shmName, [gSegment EXCEPT ![b] = None], shm) /\ Goto(b, "reopenShm")
        /\ gJiaba' = gJiaba /\ pc[b] = "shrink"
    BY <1>10, <2>1 DEF Shrink, procVars
  <2>3. gJiaba[b] = None
    BY <2>2, NoParser DEF Ground
  <2>4. gSegment' = [gSegment EXCEPT ![b] = None]
        /\ shmName' = shmName /\ shm'[shmName] = shm[shmName]
    BY <2>2, NamedStays
  <2>5. Keeps(b, "reopenShm")
    BY <1>2, <2>2, <2>3, <2>4 DEF Keeps
  <2>. QED
    BY <2>5, ServedFrame
<1>11. CASE ReopenShm(b)
  <2>1. Segments(shmName, [gSegment EXCEPT ![b] = shmName], shm) /\ Goto(b, "trie")
        /\ gJiaba' = gJiaba /\ pc[b] = "reopenShm"
    BY <1>1, <1>4, <1>11 DEF ReopenShm, procVars
  <2>2. gJiaba[b] = None
    BY <2>1, NoParser DEF Ground
  <2>3. gSegment' = [gSegment EXCEPT ![b] = shmName]
        /\ shmName' = shmName /\ shm'[shmName] = shm[shmName]
    BY <2>1, NamedStays
  <2>4. Keeps(b, "trie")
    BY <1>2, <2>1, <2>2, <2>3 DEF Keeps
  <2>. QED
    BY <2>4, ServedFrame
<1>12. CASE BuildTrie(b)
  <2>. DEFINE parser == [seg |-> gSegment[b], units |-> shm[gSegment[b]].units,
                         data |-> shm[gSegment[b]].data, singles |-> dictTrie[b].user]
  <2>1. pc[b] = "trie"
    BY <1>4, <1>12 DEF BuildTrie, Local
  <2>2. gSegment[b] = shmName /\ parser.seg = shmName /\ parser.units = "full"
    BY <1>1, <2>1
  <2>3. gJiaba' = [gJiaba EXCEPT ![b] = parser] /\ Goto(b, "unlock") /\ UNCHANGED shmVars
    BY <1>1, <1>4, <1>12, <2>2 DEF BuildTrie
  <2>. HIDE DEF parser
  <2>4. \A c \in Backends : gJiaba'[c] = IF c = b THEN parser ELSE gJiaba[c]
    BY <1>2, <2>3
  <2>5. Keeps(b, "unlock")
    BY <2>2, <2>3, <2>4 DEF Keeps, shmVars
  <2>. QED
    BY <2>5, ServedFrame
<1>. QED
  BY <1>1, <1>6, <1>7, <1>8, <1>9, <1>10, <1>11, <1>12
     DEF Step, ResetRemoveLock, ResetRemoveShm, RemoveStale, CreateOnly, LoadDict,
         LoadUserDict, SaveConstruct, SaveUnits, SaveVersion, Save, BadAlloc, Local, NotOK,
         GiveUp, Unwind, CatchRemoveLock, CatchRemoveShm

\* Sessions come and go, and the dictionary stays.
LEMMA ServedSurroundings ==
  ASSUME Undisturbed, Ground, Served, Settled, version = 1, version' = 1, Surroundings
  PROVE  FirstInv'
<1>1. gSegment \in [Backends -> SegIds \cup {None}]
  BY DEF Ground, IInv, TypeOK, ShmType
<1>2. ASSUME NEW b \in Backends, Start(b) PROVE FirstInv'
  <2>1. Goto(b, "hash") /\ UNCHANGED <<shmVars, gJiaba>>
    BY <1>2 DEF Start, Local
  <2>2. Keeps(b, "hash")
    BY <2>1 DEF Keeps, Served, shmVars
  <2>. QED
    BY <2>2, ServedFrame DEF Reading
<1>3. ASSUME NEW b \in Backends, Disconnect(b) PROVE FirstInv'
  <2>. DEFINE map == [c \in Backends |-> IF c \in {b} THEN None ELSE gSegment[c]]
  <2>1. Segments(shmName, map, shm) /\ Exit({b}, "idle")
    BY <1>3 DEF Disconnect, Exit
  <2>2. Goto(b, "idle") /\ \A c \in Backends : gJiaba'[c] = IF c = b THEN None ELSE gJiaba[c]
    BY <2>1 DEF Exit, Goto, Ground, IInv, TypeOK, ProcType
  <2>3. \A c \in Backends \ {b} : map[c] = gSegment[c]
    BY <1>1
  <2>. HIDE DEF map
  <2>4. Keeps(b, "idle")
    BY <2>1, <2>2, <2>3, NamedStays DEF Keeps
  <2>. QED
    BY <2>4, ServedFrame DEF Reading
<1>4. ASSUME NEW b \in Backends PROVE ~Reset(b) /\ ~Kill(b)
  BY DEF Reset, Kill, Undisturbed, Ground, IInv, TypeOK, EnvType
<1>5. ASSUME NEW c \in Clusters PROVE ~Restart(c)
  BY ClusterAssumption DEF Restart, Served, Reading
<1>6. ASSUME NEW f \in {"dict", "user"} PROVE ~RemoveFile(f) /\ ~ReplaceFile(f)
  BY DEF RemoveFile, ReplaceFile, Undisturbed
<1>. QED
  BY <1>2, <1>3, <1>4, <1>5, <1>6 DEF Surroundings

\* A version is only ever followed by the next one.
LEMMA VersionGrows ==
  ASSUME Ground, Next PROVE version' \in {version, version + 1}
<1>1. ASSUME NEW b \in Backends, Step(b) PROVE version' = version
  <2>1. CASE \/ ResetRemoveLock(b) \/ ResetRemoveShm(b) \/ CheckVersion(b)
             \/ \E f \in {"dict", "user"} : HashFile(b, f)
             \/ OpenLock(b) \/ AcquireTimed(b) \/ TimeOut(b)
             \/ StealRemoveLock(b) \/ StealReopenLock(b) \/ AcquireBlocking(b)
    BY <2>1
       DEF ResetRemoveLock, ResetRemoveShm, CheckVersion, HashFile, OpenLock, AcquireTimed,
           TimeOut, StealRemoveLock, StealReopenLock, AcquireBlocking, Acquire, Local, Fail,
           envVars
  <2>2. CASE MapSegment(b) \/ Verify(b) \/ RemoveStale(b) \/ CreateOnly(b)
    BY <2>2 DEF MapSegment, Verify, RemoveStale, CreateOnly, envVars
  <2>3. CASE \/ LoadDict(b) \/ LoadUserDict(b) \/ SaveConstruct(b) \/ SaveUnits(b)
             \/ SaveVersion(b) \/ Shrink(b) \/ ReopenShm(b) \/ BuildTrie(b)
    BY <2>3
       DEF LoadDict, LoadUserDict, SaveConstruct, SaveUnits, SaveVersion, Shrink, ReopenShm,
           BuildTrie, Save, BadAlloc, Local, Die, envVars
  <2>4. CASE \/ Finish(b) \/ NotOK(b) \/ GiveUp(b) \/ Unwind(b)
             \/ CatchRemoveLock(b) \/ CatchRemoveShm(b)
    BY <2>4
       DEF Finish, NotOK, GiveUp, Unwind, CatchRemoveLock, CatchRemoveShm, Fail, envVars
  <2>. QED
    BY <1>1, <2>1, <2>2, <2>3, <2>4 DEF Step
<1>2. CASE Surroundings
  BY <1>2
     DEF Surroundings, Start, Reset, Disconnect, Kill, Restart, ReplaceFile, RemoveFile, Local,
         envVars
<1>. QED
  BY <1>1, <1>2 DEF Next

\* As long as there is no dictionary nobody has released the mutex.
LEMMA FirstWaiters ==
  ASSUME Undisturbed, Ground, CalmInv, overtaken = {}, version = 1, ~Settled, Next
  PROVE  overtaken' = {}
<1>1. /\ gLock \in [Backends -> LockIds \cup {None}]
      /\ lockOwner \in [LockIds -> Backends \cup {None, Dead}]
  BY DEF Ground, IInv, TypeOK, LockType
<1>2. \A c \in Backends : pc[c] = "wait" => gLock[c] \in LockIds
  BY <1>1 DEF Ground, LockInv, Handled
<1>3. ASSUME NEW name, NEW handle, NEW owner, Locks(name, handle, owner),
             \A c \in Backends : pc[c] = "wait" /\ owner[gLock[c]] = None
                                   => lockOwner[gLock[c]] = None
      PROVE  overtaken' = {}
  BY <1>3 DEF Locks
<1>4. ASSUME NEW b \in Backends, Step(b) PROVE overtaken' = {}
  <2>1. pc[b] \notin Away /\ ~TimeOut(b) /\ ~Die(b)
        /\ \A from \in {"construct", "fill", "tag"} : ~BadAlloc(b, from)
    BY <1>4, CalmStays DEF CalmInv, Calm
  <2>2. ~Finish(b)
    <3>1. pc[b] = "unlock" => gJiaba[b] # None
      BY DEF Ground, IInv, Sound
    <3>. QED
      BY <3>1 DEF Finish, CalmInv, OneCopy
  <2>3. CASE OpenLock(b)
    <3>1. CASE lockName # None
      BY <1>3, <2>3, <3>1 DEF OpenLock, OpenOrCreateLock
    <3>2. CASE lockName = None
      <4>. DEFINE k == CHOOSE x \in FreeLocks : TRUE
      <4>1. \A c \in Backends : gLock[c] # k
        BY <2>3, <3>2 DEF OpenLock, OpenOrCreateLock, FreeLocks
      <4>2. Locks(k, [gLock EXCEPT ![b] = k], [lockOwner EXCEPT ![k] = None])
        BY <2>3, <3>2 DEF OpenLock, OpenOrCreateLock
      <4>. HIDE DEF k
      <4>3. \A c \in Backends : pc[c] = "wait" =>
              [lockOwner EXCEPT ![k] = None][gLock[c]] = lockOwner[gLock[c]]
        BY <1>1, <1>2, <4>1
      <4>. QED
        BY <1>3, <4>2, <4>3
    <3>. QED
      BY <3>1, <3>2
  <2>4. CASE AcquireTimed(b)
    <3>1. Locks(lockName, gLock, [lockOwner EXCEPT ![gLock[b]] = b])
      BY <2>4 DEF AcquireTimed, Acquire
    <3>2. \A c \in Backends : pc[c] = "wait" =>
            [lockOwner EXCEPT ![gLock[b]] = b][gLock[c]] \in {b, lockOwner[gLock[c]]}
      BY <1>1, <1>2
    <3>. QED
      BY <1>3, <3>1, <3>2, NamesAssumption
  <2>5. CASE UNCHANGED lockVars
    BY <2>5 DEF lockVars
  <2>6. OpenLock(b) \/ AcquireTimed(b) \/ UNCHANGED lockVars
    BY <1>4, <2>1, <2>2
       DEF Step, Away, ResetRemoveLock, ResetRemoveShm, StealRemoveLock, StealReopenLock,
           AcquireBlocking, Acquire, NotOK, GiveUp, Unwind, CatchRemoveLock, CatchRemoveShm,
           HashFile, CheckVersion, MapSegment, Verify, RemoveStale, CreateOnly, LoadDict,
           LoadUserDict, SaveConstruct, SaveUnits, SaveVersion, Save, Shrink, ReopenShm,
           BuildTrie, Local
  <2>. QED
    BY <2>3, <2>4, <2>5, <2>6
<1>5. ASSUME NEW b \in Backends, Disconnect(b) PROVE overtaken' = {}
  <2>. DEFINE owner == [l \in LockIds |-> IF lockOwner[l] \in {b} THEN Dead ELSE lockOwner[l]]
              handle == [c \in Backends |-> IF c \in {b} THEN None ELSE gLock[c]]
  <2>1. pc[b] = "idle" /\ Locks(lockName, handle, owner)
    BY <1>5 DEF Disconnect, Exit
  <2>2. \A l \in LockIds : lockOwner[l] # b
    BY <2>1 DEF Ground, LockInv, LockDiscipline, Critical
  <2>3. \A l \in LockIds : owner[l] = lockOwner[l]
    BY <2>2
  <2>. HIDE DEF owner, handle
  <2>. QED
    BY <1>2, <1>3, <2>1, <2>3
<1>6. ASSUME NEW b \in Backends PROVE ~Reset(b) /\ ~Kill(b)
  BY DEF Reset, Kill, Undisturbed, Ground, IInv, TypeOK, EnvType
<1>7. ASSUME NEW c \in Clusters PROVE ~Restart(c)
  BY ClusterAssumption DEF Restart, CalmInv, Calm, Away
<1>. QED
  BY <1>4, <1>5, <1>6, <1>7
     DEF Next, Surroundings, Start, Local, ReplaceFile, RemoveFile, lockVars

\* Either way the invariant survives each step.
LEMMA NextFirstInv == Undisturbed /\ Ground /\ FirstInv /\ [Next]_vars => Ground' /\ FirstInv'
<1>. SUFFICES ASSUME Undisturbed, Ground, FirstInv, [Next]_vars PROVE Ground' /\ FirstInv'
  OBVIOUS
<1>1. Ground'
  BY NextGround
<1>2. CASE UNCHANGED vars
  <2>1. Settled /\ Served => Settled' /\ Served'
    BY <1>2 DEF Settled, Served, vars, shmVars, procVars
  <2>2. Unforced => Unforced'
    BY <1>2, NextCalmInv DEF Unforced, vars, lockVars
  <2>3. version' = version
    BY <1>2 DEF vars, envVars
  <2>. QED
    BY <1>1, <2>1, <2>2, <2>3 DEF FirstInv
<1>3. CASE Next
  <2>. SUFFICES ASSUME version' = 1 PROVE FirstInv'
    BY <1>1 DEF FirstInv
  <2>1. version = 1
    <3>1. version \in Nat /\ version # 0
      BY DEF Ground, FilesInv, FilesTrue, IInv, TypeOK, EnvType, Version
    <3>. QED
      BY <1>3, <3>1, VersionGrows
  <2>2. CASE Settled
    <3>1. Served
      BY <2>1, <2>2, CalmServes DEF FirstInv, Unforced
    <3>. QED
      BY <1>3, <2>1, <2>2, <3>1, ServedStep, ServedSurroundings DEF Next
  <2>3. CASE ~Settled
    <3>1. CalmInv /\ overtaken = {}
      BY <2>1, <2>3 DEF FirstInv, Unforced
    <3>2. CalmInv' /\ overtaken' = {}
      BY <1>3, <2>1, <2>3, <3>1, NextCalmInv, FirstWaiters
    <3>. QED
      BY <3>2 DEF FirstInv, Unforced
  <2>. QED
    BY <2>2, <2>3
<1>. QED
  BY <1>1, <1>2, <1>3

\* The invariant holds in every reachable state of an undisturbed system.
LEMMA FirstHolds == ASSUME Undisturbed PROVE Spec => [](Ground /\ FirstInv)
<1>1. Ground /\ FirstInv /\ [Next]_vars => Ground' /\ FirstInv'
  BY NextFirstInv
<1>2. Init => Ground /\ FirstInv
  BY InitCalmInv DEF FirstInv, Unforced
<1>. QED
  BY <1>1, <1>2, PTL DEF Spec

\* Undisturbed, until a file changes there is one builder at most, though waiters that
\* were overtaken take the mutex away from its owner.
THEOREM OneBuilder == ASSUME Undisturbed PROVE Spec => []BuilderAlone
<1>1. Ground /\ FirstInv => BuilderAlone
  <2>1. Building \subseteq Critical
    BY DEF Building, Critical
  <2>2. Building \cap Reading \subseteq {"shrink", "reopenShm"}
    BY DEF Building, Reading
  <2>. QED
    BY <2>1, <2>2, CalmExcludes DEF FirstInv, Unforced, Served, CalmInv, OneInside, BuilderAlone
<1>. QED
  BY <1>1, FirstHolds, PTL

\* Undisturbed, all backends share one copy of the dictionary until a file changes, also
\* those that got in by taking the mutex away.
THEOREM OneCopyShared == ASSUME Undisturbed PROVE Spec => []SharedOnce
<1>1. FirstInv => SharedOnce
  BY DEF FirstInv, Unforced, Served, CalmInv, OneCopy, SharedOnce
<1>. QED
  BY <1>1, FirstHolds, PTL

\* Undisturbed, until a file changes parsers are complete and nobody faults, also with
\* shrink_to_fit and with waiters that take the mutex away.
THEOREM FirstDictionaryIsWhole ==
  ASSUME Undisturbed PROVE Spec => [](version = 1 => ReadyComplete /\ NoSelfDeath)
<1>1. FirstInv => (version = 1 => ReadyComplete /\ NoSelfDeath)
  BY DEF FirstInv, Unforced, Served, Reading, CalmInv, Calm, Away, OneCopy, ReadyComplete, NoSelfDeath
<1>. QED
  BY <1>1, FirstHolds, PTL
=============================================================================
