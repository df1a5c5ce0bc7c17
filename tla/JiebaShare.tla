----------------------------- MODULE JiebaShare -----------------------------
(***************************************************************************)
(* The cooperative construction of the shared dictionary segment.          *)
(*                                                                         *)
(* Every PostgreSQL backend is a process of its own.  The first call of    *)
(* the extension in a backend runs init() (jbparser.c), which calls        *)
(* parse_init() and init_jieba_share() (jbparserImpl.cpp).  The backends   *)
(* meet in two named kernel objects only:                                  *)
(*   - the mutex SHM_LOCK_NAME, and                                        *)
(*   - the managed segment SHM_NAME, that holds the vector of dictionary   *)
(*     units and, written last, the version string.                        *)
(* A name can be removed while processes still use the object behind it:   *)
(* the object then lives on, unnamed, and the next open_or_create makes a  *)
(* new object of the same name.  Names and objects are therefore kept      *)
(* apart here: lockName and shmName are the objects the two names stand    *)
(* for, gLock[b] and gSegment[b] are the objects backend b has open.       *)
(*                                                                         *)
(* A dictionary file is abstracted to the number of its version, 0 when it *)
(* cannot be read; its MD5 is that number.                                 *)
(***************************************************************************)
EXTENDS Naturals

CONSTANTS
  Backends,     \* the processes
  Clusters,     \* the sets of backends that one postmaster runs
  LockIds,      \* identities of mutex objects
  SegIds,       \* identities of segment objects
  None,         \* no object, no value
  Dead,         \* the owner of a mutex whose process is gone
  SlowBuild,    \* one owner alone may hold the mutex longer than the 6 s wait
  LongQueue,    \* several owners, one after the other, may take longer than that
  Shrinks,      \* more than 1/16 of the segment is free after the save
  ShmFull,      \* the dictionary may outgrow MAX_SHM_SZ
  Asserts,      \* builds considered: with assert() (TRUE), with NDEBUG (FALSE)
  FilesVanish,  \* dictionary files may be missing
  Reconnect,    \* sessions may end and be replaced by new ones
  MaxVersion,   \* bound: newest version of a dictionary file
  MaxResets,    \* bound: calls of jiebaparser_reset
  MaxKills      \* bound: processes killed from outside

ASSUME NamesAssumption ==
  /\ None \notin Backends \cup LockIds \cup SegIds \cup Nat
  /\ Dead \notin Backends \cup {None}

ASSUME ClusterAssumption == \A c \in Clusters : c \subseteq Backends

ASSUME SwitchAssumption ==
  {SlowBuild, LongQueue, Shrinks, ShmFull, FilesVanish, Reconnect} \cup Asserts \subseteq BOOLEAN

ASSUME BoundAssumption ==
  MaxVersion \in Nat \ {0} /\ MaxResets \in Nat /\ MaxKills \in Nat

VARIABLES
  files,      \* the dictionary files on disk
  version,    \* the newest version a file ever had
  lockName,   \* the object named SHM_LOCK_NAME
  lockOwner,  \* per mutex object, its owner
  overtaken,  \* who has waited through the end of one owner's time, and goes on
  shmName,    \* the object named SHM_NAME
  shm,        \* per segment object, its contents
  pc,         \* where each backend is in init()
  loaded,     \* the extension's library is loaded
  gInited, gJiaba, gLock, gSegment, gsVsValue, \* the globals of each backend
  dictTrie,   \* what the DictTrie of a backend read from the files itself
  resets, kills

lockVars == <<lockName, lockOwner, gLock, overtaken>>
shmVars  == <<shmName, shm, gSegment>>
envVars  == <<files, version, resets, kills>>
procVars == <<loaded, gInited, gJiaba, gsVsValue, dictTrie>>
vars     == <<lockVars, shmVars, envVars, procVars, pc>>

-----------------------------------------------------------------------------
(* Data.                                                                   *)

Version     == 0..MaxVersion
Content     == [dict: Version, user: Version]
Fingerprint == [dict: Version \cup {None}, user: Version \cup {None}]

NothingLoaded == [dict |-> 0, user |-> 0]
NotHashed     == [dict |-> None, user |-> None]

\* units: the dictionary vector in the segment; shrunk: the segment was cut
\* to size by another process before its builder was done.
Segment == [units: {"absent", "filling", "torn", "full"},
            data: Content, tag: Fingerprint \cup {None}, shrunk: BOOLEAN]

EmptySegment ==
  [units |-> "absent", data |-> NothingLoaded, tag |-> None, shrunk |-> FALSE]

\* A parser instance: the segment its unit vector is in, how complete and
\* how new the units were when its trie was built, and the user dictionary
\* its one-rune words were collected from.
Parser == [seg: SegIds, units: {"filling", "torn", "full"},
           data: Content, singles: Version]

ASSUME ParserAssumption == None \notin Parser \cup Fingerprint

AtLeast(content, fp) == content.dict >= fp.dict /\ content.user >= fp.user

Critical == {"check", "verify", "rmStale", "create", "load", "loadUser",
             "construct", "fill", "tag", "shrink", "reopenShm", "trie",
             "notOK", "giveUp", "unlock", "unwind"}

Building == {"rmStale", "create", "load", "loadUser", "construct", "fill", "tag",
             "shrink", "reopenShm"}

Busy == Critical \cup {"rmLock", "rmShm", "hash", "openLock", "wait", "steal",
                       "reopenLock", "block", "catchLock", "catchShm"}

-----------------------------------------------------------------------------
(* Kernel objects: one lives while its name or an open handle refers to it. *)

Locks(name, handle, owner) ==
  /\ lockName' = name
  /\ gLock' = handle
  /\ lockOwner' = [l \in LockIds |->
       IF l = name \/ \E b \in Backends : handle[b] = l THEN owner[l] ELSE None]
  /\ overtaken' = {b \in Backends :
       /\ LongQueue
       /\ pc[b] = "wait" /\ handle[b] = gLock[b] /\ owner[gLock[b]] # b
       /\ \/ b \in overtaken
          \/ lockOwner[gLock[b]] # None /\ owner[gLock[b]] = None}

Segments(name, map, object) ==
  /\ shmName' = name
  /\ gSegment' = map
  /\ shm' = [s \in SegIds |->
       IF s = name \/ \E b \in Backends : map[b] = s THEN object[s]
                                                     ELSE EmptySegment]

FreeLocks == {l \in LockIds : l # lockName /\ \A b \in Backends : gLock[b] # l}
FreeSegs  == {s \in SegIds : s # shmName /\ \A b \in Backends : gSegment[b] # s}

\* named_recursive_mutex(open_or_create, SHM_LOCK_NAME)
OpenOrCreateLock(b) ==
  IF lockName # None
  THEN Locks(lockName, [gLock EXCEPT ![b] = lockName], lockOwner)
  ELSE /\ FreeLocks # {}
       /\ LET l == CHOOSE x \in FreeLocks : TRUE
          IN  Locks(l, [gLock EXCEPT ![b] = l], [lockOwner EXCEPT ![l] = None])

RemoveLock == Locks(None, gLock, lockOwner)

\* a new segment object that takes the name
CreateSegment(b) ==
  /\ FreeSegs # {}
  /\ LET s == CHOOSE x \in FreeSegs : TRUE
     IN  Segments(s, [gSegment EXCEPT ![b] = s], [shm EXCEPT ![s] = EmptySegment])

RemoveShm == Segments(None, gSegment, shm)

-----------------------------------------------------------------------------
(* Control.                                                                *)

Goto(b, label) == pc' = [pc EXCEPT ![b] = label]

\* The processes of the set are gone, with all they had open; a mutex one of
\* them owned stays owned, by nobody.
Exit(gone, label) ==
  LET drop(f, v) == [b \in Backends |-> IF b \in gone THEN v ELSE f[b]] IN
  /\ pc' = drop(pc, label)
  /\ loaded' = drop(loaded, FALSE)
  /\ gInited' = drop(gInited, FALSE)
  /\ gJiaba' = drop(gJiaba, None)
  /\ gsVsValue' = drop(gsVsValue, NotHashed)
  /\ dictTrie' = drop(dictTrie, NothingLoaded)
  /\ Locks(lockName, drop(gLock, None),
           [l \in LockIds |-> IF lockOwner[l] \in gone THEN Dead ELSE lockOwner[l]])
  /\ Segments(shmName, drop(gSegment, None), shm)

\* abort() or a fault in the backend's own code
Die(b) == Exit({b}, "dead") /\ UNCHANGED envVars

\* Faulty: gInited keeps its value when parse_init() fails.
FailKeepsFlag(b) ==
  /\ gJiaba' = [gJiaba EXCEPT ![b] = None]
  /\ dictTrie' = [dictTrie EXCEPT ![b] = NothingLoaded]
  /\ Goto(b, "idle")
  /\ UNCHANGED <<loaded, gInited, gsVsValue, envVars>>

\* parse_init() reports failure, init() raises an error
Fail(b) ==
  /\ gInited' = [gInited EXCEPT ![b] = FALSE]
  /\ gJiaba' = [gJiaba EXCEPT ![b] = None]
  /\ dictTrie' = [dictTrie EXCEPT ![b] = NothingLoaded]
  /\ Goto(b, "idle")
  /\ UNCHANGED <<loaded, gsVsValue, envVars>>

\* A step of b inside init_jieba_share that touches neither mutex nor segment.
Local(b, from, to) ==
  /\ pc[b] = from
  /\ Goto(b, to)
  /\ UNCHANGED <<lockVars, shmVars, envVars, loaded, gInited, gJiaba>>

-----------------------------------------------------------------------------
(* Entering init().                                                        *)

\* _PG_init, jbprs_start, jbprs_start_q or jbprs_lextype: init(0) if needed
Start(b) ==
  /\ ~gInited[b]
  /\ Local(b, "idle", "hash")
  /\ gsVsValue' = [gsVsValue EXCEPT ![b] = NotHashed]
  /\ UNCHANGED dictTrie

\* Faulty: jiebaparser_reset without parse_uninit().
ResetKeepsParser(b) ==
  /\ pc[b] = "idle" /\ loaded[b]
  /\ resets < MaxResets
  /\ resets' = resets + 1
  /\ gsVsValue' = [gsVsValue EXCEPT ![b] = NotHashed]
  /\ Goto(b, "rmLock")
  /\ UNCHANGED <<lockVars, shmVars, files, version, kills,
                 loaded, gInited, gJiaba, dictTrie>>

\* jiebaparser_reset: parse_uninit(), then init(1)
Reset(b) ==
  /\ pc[b] = "idle" /\ loaded[b]
  /\ resets < MaxResets
  /\ resets' = resets + 1
  /\ gJiaba' = [gJiaba EXCEPT ![b] = None]
  /\ gsVsValue' = [gsVsValue EXCEPT ![b] = NotHashed]
  /\ Goto(b, "rmLock")
  /\ UNCHANGED <<lockVars, shmVars, files, version, kills, loaded, gInited, dictTrie>>

\* forceReset == 1: both names are removed, before any mutex is taken
ResetRemoveLock(b) ==
  /\ pc[b] = "rmLock"
  /\ RemoveLock
  /\ Goto(b, "rmShm")
  /\ UNCHANGED <<shmVars, envVars, procVars>>

ResetRemoveShm(b) ==
  /\ pc[b] = "rmShm"
  /\ RemoveShm
  /\ Goto(b, "hash")
  /\ UNCHANGED <<lockVars, envVars, procVars>>

\* file_md5 of one of the two files; C++ leaves the order open
HashFile(b, f) ==
  /\ pc[b] = "hash"
  /\ gsVsValue[b][f] = None
  /\ gsVsValue' = [gsVsValue EXCEPT ![b][f] = files[f]]
  /\ UNCHANGED <<lockVars, shmVars, envVars, pc, loaded, gInited, gJiaba, dictTrie>>

Hashed(b) == gsVsValue[b].dict # None /\ gsVsValue[b].user # None

\* the version string is too short when neither file could be read
CheckVersion(b) ==
  /\ pc[b] = "hash"
  /\ Hashed(b)
  /\ IF gsVsValue[b] = NothingLoaded
     THEN Fail(b)
     ELSE Goto(b, "openLock") /\ UNCHANGED <<envVars, procVars>>
  /\ UNCHANGED <<lockVars, shmVars>>

-----------------------------------------------------------------------------
(* The mutex.                                                              *)

OpenLock(b) ==
  /\ pc[b] = "openLock"
  /\ OpenOrCreateLock(b)
  /\ Goto(b, "wait")
  /\ UNCHANGED <<shmVars, envVars, procVars>>

Acquire(b, from) ==
  /\ pc[b] = from
  /\ lockOwner[gLock[b]] = None
  /\ Locks(lockName, gLock, [lockOwner EXCEPT ![gLock[b]] = b])
  /\ Goto(b, "check")
  /\ UNCHANGED <<shmVars, envVars, procVars>>

AcquireTimed(b) == Acquire(b, "wait")

\* Faulty: the wait has no limit, so a dead owner is never noticed.
NeverTimeOut(b) == FALSE /\ UNCHANGED vars

\* Faulty: the wait is given in the wrong unit, and over at once.
TimeOutAtOnce(b) ==
  /\ pc[b] = "wait"
  /\ lockOwner[gLock[b]] # None
  /\ Local(b, "wait", "steal")
  /\ UNCHANGED <<gsVsValue, dictTrie>>

\* scoped_lock's 6 s are over and it does not own the mutex.  They are counted
\* from when the wait began, whoever has had the mutex since: even if no owner
\* takes that long, the second one may see them end.
TimeOut(b) ==
  /\ pc[b] = "wait"
  /\ lockOwner[gLock[b]] # None
  /\ SlowBuild \/ b \in overtaken \/ lockOwner[gLock[b]] = Dead
  /\ Local(b, "wait", "steal")
  /\ UNCHANGED <<gsVsValue, dictTrie>>

StealRemoveLock(b) ==
  /\ pc[b] = "steal"
  /\ RemoveLock
  /\ Goto(b, "reopenLock")
  /\ UNCHANGED <<shmVars, envVars, procVars>>

StealReopenLock(b) ==
  /\ pc[b] = "reopenLock"
  /\ OpenOrCreateLock(b)
  /\ Goto(b, "block")
  /\ UNCHANGED <<shmVars, envVars, procVars>>

\* the second scoped_lock waits without a limit
AcquireBlocking(b) == Acquire(b, "block")

\* slk and gLock leave their scope
Release(b) ==
  Locks(lockName, [gLock EXCEPT ![b] = None], [lockOwner EXCEPT ![gLock[b]] = None])

-----------------------------------------------------------------------------
(* The segment.                                                            *)

\* _chkShMem: managed_shared_memory(open_or_create, SHM_NAME)
MapSegment(b) ==
  /\ pc[b] = "check"
  /\ IF shmName # None
     THEN Segments(shmName, [gSegment EXCEPT ![b] = shmName], shm)
     ELSE CreateSegment(b)
  /\ Goto(b, "verify")
  /\ UNCHANGED <<lockVars, envVars, procVars>>

\* Faulty: _chkShMem is content with any segment that is sane.
VerifySanityOnly(b) ==
  /\ pc[b] = "verify"
  /\ Goto(b, "trie")
  /\ UNCHANGED <<lockVars, shmVars, envVars, procVars>>

\* Faulty: _chkShMem looks for the dictionary only, not for its version.
VerifyDictOnly(b) ==
  /\ pc[b] = "verify"
  /\ IF shm[gSegment[b]].units # "absent"
     THEN Goto(b, "trie") /\ UNCHANGED shmVars
     ELSE /\ Goto(b, "rmStale")
          /\ Segments(shmName, [gSegment EXCEPT ![b] = None], shm)
  /\ UNCHANGED <<lockVars, envVars, procVars>>

\* Faulty: the test of strcmp's result is the wrong way round.
VerifySwapped(b) ==
  /\ pc[b] = "verify"
  /\ LET s == shm[gSegment[b]] IN
     IF s.units # "absent" /\ s.tag # None /\ s.tag # gsVsValue[b]
     THEN Goto(b, "trie") /\ UNCHANGED shmVars
     ELSE /\ Goto(b, "rmStale")
          /\ Segments(shmName, [gSegment EXCEPT ![b] = None], shm)
  /\ UNCHANGED <<lockVars, envVars, procVars>>

\* _chkShMem: the dictionary and the version string are there, and the version
\* is the one hashed.  check_sanity may notice a torn segment, or not.
Verify(b) ==
  /\ pc[b] = "verify"
  /\ LET s     == shm[gSegment[b]]
         match == s.units # "absent" /\ s.tag = gsVsValue[b]
     IN \/ /\ match
           /\ Goto(b, "trie")
           /\ UNCHANGED shmVars
        \/ /\ ~match \/ s.units = "torn"
           /\ Goto(b, "rmStale")
           /\ Segments(shmName, [gSegment EXCEPT ![b] = None], shm)
  /\ UNCHANGED <<lockVars, envVars, procVars>>

RemoveStale(b) ==
  /\ pc[b] = "rmStale"
  /\ RemoveShm
  /\ Goto(b, "create")
  /\ UNCHANGED <<lockVars, envVars, procVars>>

\* Faulty: open_or_create where the code says create_only.
CreateOrOpen(b) ==
  /\ pc[b] = "create"
  /\ IF shmName = None
     THEN CreateSegment(b)
     ELSE Segments(shmName, [gSegment EXCEPT ![b] = shmName], shm)
  /\ Goto(b, "load")
  /\ UNCHANGED <<lockVars, envVars, procVars>>

\* create_only throws when the name is in use again
CreateOnly(b) ==
  /\ pc[b] = "create"
  /\ \/ /\ shmName = None
        /\ CreateSegment(b)
        /\ Goto(b, "load")
     \/ /\ shmName # None
        /\ Goto(b, "unwind")
        /\ UNCHANGED shmVars
  /\ UNCHANGED <<lockVars, envVars, procVars>>

\* DictTrie::LoadDict, CalculateWeight: without a single word sum > 0.0 is false
LoadDict(b) ==
  \/ /\ files.dict # 0 \/ FALSE \in Asserts
     /\ Local(b, "load", "loadUser")
     /\ dictTrie' = [dictTrie EXCEPT ![b].dict = files.dict]
     /\ UNCHANGED gsVsValue
  \/ /\ pc[b] = "load"
     /\ files.dict = 0 /\ TRUE \in Asserts
     /\ Die(b)

\* DictTrie::LoadUserDict; with no unit at all _saveToShm returns nullptr, which
\* CreateTrie dereferences
LoadUserDict(b) ==
  LET read == [dictTrie[b] EXCEPT !.user = files.user] IN
  \/ /\ read # NothingLoaded
     /\ Local(b, "loadUser", "construct")
     /\ dictTrie' = [dictTrie EXCEPT ![b] = read]
     /\ UNCHANGED gsVsValue
  \/ /\ pc[b] = "loadUser"
     /\ read = NothingLoaded
     /\ Die(b)

\* A step of _saveToShm: write to b's segment
Save(b, from, to, segment) ==
  /\ pc[b] = from
  /\ Segments(shmName, gSegment, [shm EXCEPT ![gSegment[b]] = segment])
  /\ Goto(b, to)
  /\ UNCHANGED <<lockVars, envVars, procVars>>

\* ... that finds no memory in the segment
BadAlloc(b, from) ==
  /\ pc[b] = from
  /\ ShmFull \/ shm[gSegment[b]].shrunk
  /\ Local(b, from, "unwind")
  /\ UNCHANGED <<gsVsValue, dictTrie>>

\* Faulty: the version string is written first.
SaveConstructTagged(b) ==
  Save(b, "construct", "fill",
       [shm[gSegment[b]] EXCEPT !.units = "filling", !.data = dictTrie[b],
                                !.tag = gsVsValue[b]])

\* construct<SharedDictUnitVectShm>: an empty vector that find() already sees
SaveConstruct(b) ==
  \/ Save(b, "construct", "fill",
          [shm[gSegment[b]] EXCEPT !.units = "filling", !.data = dictTrie[b]])
  \/ BadAlloc(b, "construct")

\* push_back of every unit
SaveUnits(b) ==
  \/ Save(b, "fill", "tag", [shm[gSegment[b]] EXCEPT !.units = "full"])
  \/ /\ pc[b] = "fill"
     /\ shm[gSegment[b]].shrunk
     /\ Save(b, "fill", "tag", [shm[gSegment[b]] EXCEPT !.units = "torn"])
  \/ /\ pc[b] = "fill"
     /\ shm[gSegment[b]].shrunk
     /\ Die(b)
  \/ BadAlloc(b, "fill")

\* construct<shared_string>: the version string
SaveVersion(b) ==
  \/ Save(b, "tag", IF Shrinks THEN "shrink" ELSE "trie",
          [shm[gSegment[b]] EXCEPT !.tag = gsVsValue[b]])
  \/ BadAlloc(b, "tag")

\* gSegment.reset(), shrink_to_fit(SHM_NAME): cuts whatever has the name
Shrink(b) ==
  /\ pc[b] = "shrink"
  /\ Segments(shmName, [gSegment EXCEPT ![b] = None],
       [s \in SegIds |-> IF s = shmName /\ shm[s].tag = None
                         THEN [shm[s] EXCEPT !.shrunk = TRUE] ELSE shm[s]])
  /\ Goto(b, "reopenShm")
  /\ UNCHANGED <<lockVars, envVars, procVars>>

\* managed_shared_memory(open_only, SHM_NAME) throws without a segment; a
\* segment without a dictionary yields a null pointer for CreateTrie
ReopenShm(b) ==
  \/ /\ pc[b] = "reopenShm"
     /\ shmName # None
     /\ shm[shmName].units # "absent"
     /\ Segments(shmName, [gSegment EXCEPT ![b] = shmName], shm)
     /\ Goto(b, "trie")
     /\ UNCHANGED <<lockVars, envVars, procVars>>
  \/ /\ pc[b] = "reopenShm"
     /\ shmName # None
     /\ shm[shmName].units = "absent"
     /\ Die(b)
  \/ /\ shmName = None
     /\ Local(b, "reopenShm", "unwind")
     /\ UNCHANGED <<gsVsValue, dictTrie>>

\* CreateTrie over the units that are there now, then isOK(): reading a vector
\* that is being written, or was torn, may also fault or find it empty
BuildTrie(b) ==
  LET s == shm[gSegment[b]] IN
  \/ /\ pc[b] = "trie"
     /\ gJiaba' = [gJiaba EXCEPT ![b] =
          [seg |-> gSegment[b], units |-> s.units, data |-> s.data,
           singles |-> dictTrie[b].user]]
     /\ Goto(b, "unlock")
     /\ UNCHANGED <<lockVars, shmVars, envVars, loaded, gInited, gsVsValue, dictTrie>>
  \/ /\ pc[b] = "trie"
     /\ s.units = "filling"
     /\ Local(b, "trie", "notOK")
     /\ UNCHANGED <<gsVsValue, dictTrie>>
  \/ /\ pc[b] = "trie"
     /\ s.units # "full"
     /\ Die(b)

-----------------------------------------------------------------------------
(* Leaving init().                                                         *)

Finish(b) ==
  /\ pc[b] = "unlock"
  /\ Release(b)
  /\ gInited' = [gInited EXCEPT ![b] = TRUE]
  /\ loaded' = [loaded EXCEPT ![b] = TRUE]
  /\ dictTrie' = [dictTrie EXCEPT ![b] = NothingLoaded]
  /\ Goto(b, "idle")
  /\ UNCHANGED <<shmVars, envVars, gJiaba, gsVsValue>>

\* !isOK(): the name of the segment is removed before the mutex is released
NotOK(b) ==
  /\ pc[b] = "notOK"
  /\ RemoveShm
  /\ Goto(b, "giveUp")
  /\ UNCHANGED <<lockVars, envVars, procVars>>

GiveUp(b) ==
  /\ pc[b] = "giveUp"
  /\ Release(b)
  /\ Fail(b)
  /\ UNCHANGED shmVars

\* Faulty: the exception handler runs with the mutex still held.
UnwindKeepsLock(b) ==
  /\ pc[b] = "unwind"
  /\ Goto(b, "catchLock")
  /\ UNCHANGED <<lockVars, shmVars, envVars, procVars>>

\* an exception releases the mutex; its handler removes both names
Unwind(b) ==
  /\ pc[b] = "unwind"
  /\ Release(b)
  /\ Goto(b, "catchLock")
  /\ UNCHANGED <<shmVars, envVars, procVars>>

CatchRemoveLock(b) ==
  /\ pc[b] = "catchLock"
  /\ RemoveLock
  /\ Goto(b, "catchShm")
  /\ UNCHANGED <<shmVars, envVars, procVars>>

CatchRemoveShm(b) ==
  /\ pc[b] = "catchShm"
  /\ RemoveShm
  /\ Fail(b)
  /\ UNCHANGED lockVars

-----------------------------------------------------------------------------
(* The surroundings: sessions, the postmaster, the administrator.          *)

Disconnect(b) ==
  /\ Reconnect
  /\ pc[b] = "idle" /\ loaded[b]
  /\ Exit({b}, "idle")
  /\ UNCHANGED envVars

Kill(b) ==
  /\ kills < MaxKills
  /\ pc[b] # "dead"
  /\ kills' = kills + 1
  /\ Exit({b}, "dead")
  /\ UNCHANGED <<files, version, resets>>

\* after the crash of one backend the postmaster ends them all and starts anew
Restart(c) ==
  /\ \E b \in c : pc[b] = "dead"
  /\ Exit(c, "idle")
  /\ UNCHANGED envVars

ReplaceFile(f) ==
  /\ version < MaxVersion
  /\ version' = version + 1
  /\ files' = [files EXCEPT ![f] = version + 1]
  /\ UNCHANGED <<lockVars, shmVars, procVars, pc, resets, kills>>

RemoveFile(f) ==
  /\ FilesVanish
  /\ files[f] # 0
  /\ files' = [files EXCEPT ![f] = 0]
  /\ UNCHANGED <<lockVars, shmVars, procVars, pc, version, resets, kills>>

-----------------------------------------------------------------------------
Init ==
  /\ files = [dict |-> 1, user |-> 1]
  /\ version = 1
  /\ lockName = None
  /\ lockOwner = [l \in LockIds |-> None]
  /\ overtaken = {}
  /\ shmName = None
  /\ shm = [s \in SegIds |-> EmptySegment]
  /\ pc = [b \in Backends |-> "idle"]
  /\ loaded = [b \in Backends |-> FALSE]
  /\ gInited = [b \in Backends |-> FALSE]
  /\ gJiaba = [b \in Backends |-> None]
  /\ gLock = [b \in Backends |-> None]
  /\ gSegment = [b \in Backends |-> None]
  /\ gsVsValue = [b \in Backends |-> NotHashed]
  /\ dictTrie = [b \in Backends |-> NothingLoaded]
  /\ resets = 0
  /\ kills = 0

\* what a backend does once it is inside init()
Step(b) ==
  \/ ResetRemoveLock(b) \/ ResetRemoveShm(b)
  \/ \E f \in {"dict", "user"} : HashFile(b, f)
  \/ CheckVersion(b)
  \/ OpenLock(b) \/ AcquireTimed(b) \/ TimeOut(b)
  \/ StealRemoveLock(b) \/ StealReopenLock(b) \/ AcquireBlocking(b)
  \/ MapSegment(b) \/ Verify(b) \/ RemoveStale(b) \/ CreateOnly(b)
  \/ LoadDict(b) \/ LoadUserDict(b)
  \/ SaveConstruct(b) \/ SaveUnits(b) \/ SaveVersion(b)
  \/ Shrink(b) \/ ReopenShm(b) \/ BuildTrie(b)
  \/ Finish(b) \/ NotOK(b) \/ GiveUp(b)
  \/ Unwind(b) \/ CatchRemoveLock(b) \/ CatchRemoveShm(b)

Surroundings ==
  \/ \E b \in Backends : Start(b) \/ Reset(b) \/ Disconnect(b) \/ Kill(b)
  \/ \E c \in Clusters : Restart(c)
  \/ \E f \in {"dict", "user"} : ReplaceFile(f) \/ RemoveFile(f)

Next == Surroundings \/ \E b \in Backends : Step(b)

Spec == Init /\ [][Next]_vars

\* A process that can take a step inside init() is scheduled sooner or later.
\* The postmaster restarts its backends after a crash.
Fairness ==
  /\ \A b \in Backends : WF_vars(Step(b))
  /\ \A c \in Clusters : WF_vars(Restart(c))

FairSpec == Spec /\ Fairness

-----------------------------------------------------------------------------
(* What the construction promises.                                         *)

LockType ==
  /\ lockName \in LockIds \cup {None}
  /\ lockOwner \in [LockIds -> Backends \cup {None, Dead}]
  /\ gLock \in [Backends -> LockIds \cup {None}]
  /\ overtaken \subseteq Backends

ShmType ==
  /\ shmName \in SegIds \cup {None}
  /\ shm \in [SegIds -> Segment]
  /\ gSegment \in [Backends -> SegIds \cup {None}]

EnvType ==
  /\ files \in Content
  /\ version \in Version
  /\ resets \in 0..MaxResets
  /\ kills \in 0..MaxKills

ProcType ==
  /\ pc \in [Backends -> Busy \cup {"idle", "dead"}]
  /\ loaded \in [Backends -> BOOLEAN]
  /\ gInited \in [Backends -> BOOLEAN]
  /\ gJiaba \in [Backends -> Parser \cup {None}]
  /\ gsVsValue \in [Backends -> Fingerprint]
  /\ dictTrie \in [Backends -> Content]

\* Every variable stays in its domain; in particular no parser is built over a
\* segment without a dictionary (Parser has no units "absent").
TypeOK == LockType /\ ShmType /\ EnvType /\ ProcType

\* As long as the files do not change, nobody resets and nobody is killed, there is
\* never more than one builder.  The mutex does not see to that alone: a waiter that
\* was overtaken takes it away from its owner, and then two are inside.
BuilderAlone ==
  version = 1 /\ resets = 0 /\ kills = 0 =>
    \A a, b \in Backends : pc[a] \in Building /\ pc[b] \in Building => a = b

\* A process between scoped_lock and the end of its scope owns the mutex it has
\* open, a process elsewhere owns none: no exit from init_jieba_share, the two
\* returns and the exception included, leaves the mutex locked.
LockDiscipline ==
  /\ \A b \in Backends : pc[b] \in Critical =>
       gLock[b] # None /\ lockOwner[gLock[b]] = b
  /\ \A l \in LockIds, b \in Backends : lockOwner[l] = b =>
       pc[b] \in Critical /\ gLock[b] = l

\* A parser is only ever built over a complete dictionary, whoever built it and
\* whatever happened to its builder.
ReadyComplete ==
  \A b \in Backends : gJiaba[b] # None => gJiaba[b].units = "full"

\* The version string in a segment is the builder's promise that all units are
\* there and that they are no older than the files it was computed from.
TaggedComplete ==
  \A s \in SegIds : shm[s].tag # None =>
    /\ shm[s].units = "full"
    /\ AtLeast(shm[s].data, shm[s].tag)

\* A parser is no older than the files were when its backend hashed them, though
\* hashing, waiting for the mutex and loading are far apart.
ParserFresh ==
  \A b \in Backends : gJiaba[b] # None => AtLeast(gJiaba[b].data, gsVsValue[b])

\* The trie of a parser points into the segment its backend has mapped: the
\* segment is never unmapped or exchanged under a parser in use.
NoDangling ==
  \A b \in Backends : gJiaba[b] # None =>
    /\ gSegment[b] = gJiaba[b].seg
    /\ shm[gSegment[b]].units # "absent"

\* gInited tells the truth whenever the backend is outside init(), also after a
\* failed jiebaparser_reset: jbprs_start trusts it and does not look at gJiaba.
FlagMatchesParser ==
  \A b \in Backends : pc[b] = "idle" => (gInited[b] <=> gJiaba[b] # None)

\* As long as the files do not change and nobody resets, all backends share one
\* copy of the dictionary, also those that took the mutex away from its owner.
SharedOnce ==
  version = 1 /\ resets = 0 =>
    \A a, b \in Backends :
      gJiaba[a] # None /\ gJiaba[b] # None => gJiaba[a].seg = gJiaba[b].seg

\* If no wait for the mutex reaches six seconds, the segment new backends find under
\* the name is never older than a segment an earlier backend still uses, though a
\* process may have hashed old files.
NamedIsNewest ==
  \A s \in SegIds :
    shmName # None /\ shm[shmName].tag # None /\ shm[s].tag # None =>
      AtLeast(shm[shmName].data, shm[s].data)

\* No process crashes by itself in init_jieba_share.
NoSelfDeath == (\E b \in Backends : pc[b] = "dead") => kills > 0

\* Nobody writes to a segment with a version string while someone has it mapped.
PublishedImmutable ==
  [][\A s \in SegIds :
       shm[s].tag # None /\ (\E b \in Backends : gSegment'[b] = s)
         => shm'[s] = shm[s]]_vars

\* The one-rune words of the user dictionary, which keep MixSegment from joining
\* a rune with its neighbours, are those of the dictionary in use.
SinglesMatchUnits ==
  \A b \in Backends : gJiaba[b] # None => gJiaba[b].singles = gJiaba[b].data.user

\* Every call of init() comes to an end, also when the owner of the mutex dies.
InitTerminates ==
  \A b \in Backends : pc[b] \in Busy ~> pc[b] \notin Busy
=============================================================================
