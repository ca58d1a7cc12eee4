---------------------------- MODULE SyzygyLoad ----------------------------
(***************************************************************************)
(* How threads that probe concurrently load a Syzygy table on first use    *)
(* (probe_table, init_table of src/syzygy/syzygy.cc).                      *)
(*                                                                         *)
(* One material that is not symmetric has one entry under two keys.  A     *)
(* probe is [pc, key, type]; a file is good, bad (wrong magic), gone (no   *)
(* longer there) or cut (wrong size: map_tb throws).                       *)
(***************************************************************************)
EXTENDS Naturals

CONSTANT SzThreads   \* threads that probe

SzFree == "free"

ASSUME SzAssumption == SzFree \notin SzThreads

VARIABLES
  szFiles,  \* the state of the file of each type
  szSlot,   \* the slot of each key still points to the entry
  szReady,  \* ready[] of the entry
  szLoads,  \* history: how often init_table has filled the entry
  szLock,   \* the holder of ready_mutex_
  szProbe,  \* where each thread is
  szDead    \* what the process has died of
szVars == <<szFiles, szSlot, szReady, szLoads, szLock, szProbe, szDead>>

-----------------------------------------------------------------------------
SzKeys == {1, 2}
SzTypes == {"WDL", "DTZ"}
SzFileStates == {"good", "bad", "gone", "cut"}
SzIdle == [pc |-> "idle", key |-> 1, type |-> "WDL"]
SzNobody == "nobody"

SzInit ==
  /\ szFiles \in [SzTypes -> SzFileStates]
  /\ szSlot = [k \in SzKeys |-> TRUE]
  /\ szReady = [t \in SzTypes |-> FALSE]
  /\ szLoads = [t \in SzTypes |-> 0]
  /\ szLock = SzFree
  /\ szProbe = [th \in SzThreads |-> SzIdle]
  /\ szDead = SzNobody

SzGoto(th, pc) == szProbe' = [szProbe EXCEPT ![th].pc = pc]
SzAlive == szDead = SzNobody

(* The slot's pointer is tested, and read again to be used.                *)
SlotTested(th) ==
  /\ SzAlive /\ szProbe[th].pc = "idle"
  /\ \E k \in SzKeys, t \in SzTypes :
       /\ szSlot[k]
       /\ szProbe' = [szProbe EXCEPT ![th] = [pc |-> "tested", key |-> k,
                                              type |-> t]]
  /\ UNCHANGED <<szFiles, szSlot, szReady, szLoads, szLock, szDead>>

EntryRead(th) ==
  /\ SzAlive /\ szProbe[th].pc = "tested"
  /\ IF szSlot[szProbe[th].key]
     THEN SzGoto(th, "entry") /\ UNCHANGED szDead
     ELSE szDead' = "null entry" /\ UNCHANGED szProbe
  /\ UNCHANGED <<szFiles, szSlot, szReady, szLoads, szLock>>

ReadyTested(th) ==
  /\ SzAlive /\ szProbe[th].pc = "entry"
  /\ SzGoto(th, IF szReady[szProbe[th].type] THEN "decompress" ELSE "lock")
  /\ UNCHANGED <<szFiles, szSlot, szReady, szLoads, szLock, szDead>>

\* A mutant of MustLoad: not tested again under the lock.
MustLoadUnchecked(th) == TRUE

(* Double-checked: another thread may have loaded the table meanwhile.     *)
MustLoad(th) == ~szReady[szProbe[th].type]

ReadyLocked(th) ==
  /\ SzAlive /\ szProbe[th].pc = "lock" /\ szLock = SzFree
  /\ szLock' = IF MustLoad(th) THEN th ELSE szLock
  /\ SzGoto(th, IF MustLoad(th) THEN "load" ELSE "decompress")
  /\ UNCHANGED <<szFiles, szSlot, szReady, szLoads, szDead>>

\* A mutant of LockAfterFailure: the early return keeps the lock.
LockAfterFailureHeld(th) == th

LockAfterFailure(th) == SzFree   \* the guard leaves its scope

(* init_table: maps the file and fills the entry, or fails, or throws.     *)
TableLoaded(th) ==
  LET t == szProbe[th].type
  IN  /\ SzAlive /\ szProbe[th].pc = "load" /\ szFiles[t] = "good"
      /\ SzGoto(th, "loaded")
      /\ szLoads' = [szLoads EXCEPT ![t] = @ + 1]
      /\ UNCHANGED <<szFiles, szSlot, szReady, szLock, szDead>>

LoadFailed(th) ==
  /\ SzAlive /\ szProbe[th].pc = "load"
  /\ szFiles[szProbe[th].type] \in {"bad", "gone"}
  /\ szSlot' = [szSlot EXCEPT ![szProbe[th].key] = FALSE]
  /\ szLock' = LockAfterFailure(th)
  /\ szProbe' = [szProbe EXCEPT ![th] = SzIdle]
  /\ UNCHANGED <<szFiles, szReady, szLoads, szDead>>

LoadThrew(th) ==
  /\ SzAlive /\ szProbe[th].pc = "load" /\ szFiles[szProbe[th].type] = "cut"
  /\ szDead' = "exception"
  /\ UNCHANGED <<szFiles, szSlot, szReady, szLoads, szLock, szProbe>>

ReadyStored(th) ==
  /\ SzAlive /\ szProbe[th].pc = "loaded"
  /\ szReady' = [szReady EXCEPT ![szProbe[th].type] = TRUE]
  /\ szLock' = SzFree
  /\ SzGoto(th, "decompress")
  /\ UNCHANGED <<szFiles, szSlot, szLoads, szDead>>

Decompressed(th) ==
  /\ SzAlive /\ szProbe[th].pc = "decompress"
  /\ szProbe' = [szProbe EXCEPT ![th] = SzIdle]
  /\ UNCHANGED <<szFiles, szSlot, szReady, szLoads, szLock, szDead>>

SzStep(th) ==
  \/ SlotTested(th)
  \/ EntryRead(th)
  \/ ReadyTested(th)
  \/ ReadyLocked(th)
  \/ TableLoaded(th)
  \/ LoadFailed(th)
  \/ LoadThrew(th)
  \/ ReadyStored(th)
  \/ Decompressed(th)

SzNext == \E th \in SzThreads : SzStep(th)

SzSpec == SzInit /\ [][SzNext]_szVars

(* External: the search goes on asking, and threads are not starved.       *)
SzFinish(th) == SzStep(th) /\ szProbe[th].pc # "idle"

-----------------------------------------------------------------------------
(* Properties. *)

(* However the probes interleave, a table is loaded at most once and never *)
(* read before it is complete (the double-checked flag of probe_table).    *)
SzLoadOnceBeforeUse ==
  /\ \A t \in SzTypes : szLoads[t] <= 1
  /\ \A th \in SzThreads :
       szProbe[th].pc = "decompress" => szLoads[szProbe[th].type] = 1

(* Every probe returns, whatever became of the file, unless the process    *)
(* dies of a file cut short or of the entry another thread has deleted.    *)
SzProbeEnds ==
  \A th \in SzThreads :
    (szProbe[th].pc # "idle") ~> (szProbe[th].pc = "idle" \/ szDead # SzNobody)
=============================================================================
