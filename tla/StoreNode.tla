------------------------------- MODULE StoreNode -------------------------------
(***************************************************************************)
(* One Store node (apps/store-node/main.rs): the DRAM arena, the encrypted *)
(* SSD directory (crates/store/ssd.rs) and the handlers between them. A    *)
(* write goes to DRAM under the lock and then, with no lock held, to a     *)
(* temporary file that is renamed over the object's file. A read that does *)
(* not find its chunk in DRAM reads the object's file, with no lock held,  *)
(* and writes it back into DRAM. Handlers interleave at those awaits and   *)
(* are dropped when their client goes away; a crash loses the DRAM.        *)
(*                                                                         *)
(* Chunks are the reservations the Master hands out: an object id, a place *)
(* and a length. The bytes written for a chunk are named by the chunk.     *)
(* The file of an object is encrypted and authenticated with its id, so    *)
(* what it decrypts to is the content written or nothing.                  *)
(***************************************************************************)
EXTENDS StoreState, FiniteSets

CONSTANTS
  Tasks,         \* handler invocations
  HasSsd,        \* with_ssd or memory_only
  Environments   \* who calls the node, see below

(***************************************************************************)
(* An environment is a record of                                           *)
(*   chunks     what is written: [id, offset, len] records                 *)
(*   oneMaster  they are the reservations of one Master that is not        *)
(*              restarted: each of them is disjoint from the others        *)
(*   direct     lengths written through POST /chunks, without an object    *)
(*   upTo       bound on the places direct writes take                     *)
(*   handlers, crashes, drops   bounds                                     *)
(***************************************************************************)
Chunks == UNION {e.chunks : e \in Environments}

ASSUME ChunksAssumption ==
  \A c \in Chunks : c.offset \in Nat /\ c.len \in Nat \ {0} /\ c.offset + c.len <= ArenaSize

ASSUME HasSsdAssumption == HasSsd \in BOOLEAN

ASSUME EnvironmentAssumption ==
  \A e \in Environments : /\ e.oneMaster \in BOOLEAN
                         /\ e.direct \subseteq Nat
                         /\ e.crashes \in Nat /\ e.drops \in Nat

\* The allocator of a Master only moves forward.
ASSUME OneMasterAssumption ==
  \A e \in Environments : e.oneMaster =>
    /\ e.direct = {}
    /\ \A c, d \in e.chunks : c # d => c.offset + c.len <= d.offset \/ d.offset + d.len <= c.offset

ObjectIds == {c.id : c \in Chunks}

VARIABLES
  env,       \* the environment of this behaviour
  dram,      \* MemoryStore
  ssd,       \* the object's file in the SSD directory, NoContent if there is none
  tmp,       \* temporary files
  ssdObjects,\* ssd_objects: what the node counts as used on SSD
  task,      \* handlers
  acked,     \* history: chunks whose write was answered with success
  before,    \* history: of a chunk, the writes of its object that were over when its own began
  early,     \* history: chunks somebody read before their write was answered
  crashes, drops

vars == <<env, dram, ssd, tmp, ssdObjects, task, acked, before, early, crashes, drops>>

Idle == [pc |-> "idle", chunk |-> NoContent, data |-> NoContent]
Direct(len) == [id |-> NoContent, offset |-> NoContent, len |-> len]
Contents == Chunks \cup {Direct(len) : len \in UNION {e.direct : e \in Environments}}

ASSUME NoContentAssumption ==
  NoContent \notin Contents /\ \A c \in Contents, o \in Offsets : [of |-> c, at |-> o] # NoContent

\* A write is under way at these; "orphan" is a rename whose handler is gone.
WriterPCs == {"persist", "rename", "cleanup", "record", "orphan"}
\* "ok" and "error" are answers; the client of a handler that is "gone" got none.
PCs == WriterPCs \cup {"idle", "promote", "fill", "ok", "error", "gone"}

TypeOK ==
  /\ env \in Environments
  /\ dram \in Drams(Contents)
  /\ ssd \in [ObjectIds -> Chunks \cup {NoContent}]
  /\ tmp \subseteq Tasks
  /\ ssdObjects \in [ObjectIds -> 0..ArenaSize]
  /\ task \in [Tasks -> [pc : PCs, chunk : Chunks \cup {NoContent},
                         data : Contents \cup {NoContent}]]
  /\ acked \subseteq Chunks
  /\ before \in [Chunks -> SUBSET Chunks]
  /\ early \subseteq Chunks
  /\ crashes \in 0..env.crashes
  /\ drops \in 0..env.drops

Init ==
  /\ env \in Environments
  /\ dram = EmptyDram
  /\ ssd = [id \in ObjectIds |-> NoContent]
  /\ tmp = {}
  /\ ssdObjects = [id \in ObjectIds |-> 0]
  /\ task = [t \in Tasks |-> Idle]
  /\ acked = {}
  /\ before = [c \in Chunks |-> {}]
  /\ early = {}
  /\ crashes = 0
  /\ drops = 0

-----------------------------------------------------------------------------
(* POST /chunks/preallocated *)

Arrives(t) ==
  task[t] = Idle /\ Cardinality({u \in Tasks : task[u] # Idle}) < env.handlers

Written(c) == \E t \in Tasks : task[t].chunk = c /\ task[t].data = c
Writing(c) == \E t \in Tasks : task[t].chunk = c /\ task[t].pc \in WriterPCs

\* A chunk is reserved once, for one writer. Writers of one object, with chunks of
\* their own, do overlap: its entry may be removed at the Master while a writer is
\* at work, and reserved again.
BeginWrite(t, c) ==
  /\ Arrives(t)
  /\ c \notin acked /\ ~Written(c)
  /\ dram' = WritePreallocated(dram, c.offset, c.len, c)
  /\ task' = [task EXCEPT ![t] = [pc |-> IF HasSsd THEN "persist" ELSE "ok", chunk |-> c, data |-> c]]
  /\ acked' = IF HasSsd THEN acked ELSE acked \cup {c}
  /\ before' = [before EXCEPT ![c] = {d \in env.chunks : d.id = c.id /\ Written(d) /\ ~Writing(d)}]
  /\ UNCHANGED <<env, ssd, tmp, ssdObjects, early, crashes, drops>>

\* Mutant: the object's file is written in place.
PersistTemp_InPlace(t) ==
  /\ task[t].pc = "persist"
  /\ tmp' = tmp \cup {t}
  /\ ssd' = [ssd EXCEPT ![task[t].chunk.id] = task[t].chunk]
  /\ task' = [task EXCEPT ![t].pc = "rename"]
  /\ UNCHANGED <<env, dram, ssdObjects, acked, before, early, crashes, drops>>

\* persist_object: the temporary file is created, written and synced, ...
PersistTemp(t) ==
  /\ task[t].pc = "persist"
  /\ tmp' = tmp \cup {t}
  /\ task' = [task EXCEPT ![t].pc = "rename"]
  /\ UNCHANGED <<env, dram, ssd, ssdObjects, acked, before, early, crashes, drops>>

\* ... or there is an error: before there is a temporary file, which is returned at
\* once, or from its creation to the rename, after which the file may be there,
PersistFails(t) ==
  /\ task[t].pc \in {"persist", "rename"}
  /\ \/ /\ task[t].pc = "persist"
        /\ task' = [task EXCEPT ![t].pc = "error"]
        /\ UNCHANGED tmp
     \/ /\ task' = [task EXCEPT ![t].pc = "cleanup"]
        /\ tmp' \in {tmp, tmp \cup {t}}
  /\ UNCHANGED <<env, dram, ssd, ssdObjects, acked, before, early, crashes, drops>>

\* Mutant: the error is forgotten with the file.
RemoveTemp_Swallowed(t) ==
  /\ task[t].pc = "cleanup"
  /\ tmp' \in {tmp, tmp \ {t}}
  /\ task' = [task EXCEPT ![t].pc = "ok"]
  /\ acked' = acked \cup {task[t].chunk}
  /\ UNCHANGED <<env, dram, ssd, ssdObjects, before, early, crashes, drops>>

\* and is removed, or stays there when the removal fails too,
RemoveTemp(t) ==
  /\ task[t].pc = "cleanup"
  /\ tmp' \in {tmp, tmp \ {t}}
  /\ task' = [task EXCEPT ![t].pc = "error"]
  /\ UNCHANGED <<env, dram, ssd, ssdObjects, acked, before, early, crashes, drops>>

\* ... and it replaces the object's file.
PersistRename(t) ==
  /\ task[t].pc = "rename"
  /\ ssd' = [ssd EXCEPT ![task[t].chunk.id] = task[t].chunk]
  /\ tmp' = tmp \ {t}
  /\ task' = [task EXCEPT ![t].pc = "record"]
  /\ UNCHANGED <<env, dram, ssdObjects, acked, before, early, crashes, drops>>

\* Mutant: a rewritten object is counted twice.
RecordSsdObject_Adds(t) ==
  /\ task[t].pc = "record"
  /\ ssdObjects' = [ssdObjects EXCEPT ![task[t].chunk.id] = @ + task[t].chunk.len]
  /\ task' = [task EXCEPT ![t].pc = "ok"]
  /\ acked' = acked \cup {task[t].chunk}
  /\ UNCHANGED <<env, dram, ssd, tmp, before, early, crashes, drops>>

RecordSsdObject(t) ==
  /\ task[t].pc = "record"
  /\ ssdObjects' = [ssdObjects EXCEPT ![task[t].chunk.id] = task[t].chunk.len]
  /\ task' = [task EXCEPT ![t].pc = "ok"]
  /\ acked' = acked \cup {task[t].chunk}
  /\ UNCHANGED <<env, dram, ssd, tmp, before, early, crashes, drops>>

-----------------------------------------------------------------------------
(* GET /chunks/{offset}/{len}, with the object's id. *)

Promotable(outcome) == HasSsd /\ outcome \in {"InvalidHandle", "UnwrittenChunk"}

ReadDram(t, c) ==
  /\ Arrives(t)
  /\ LET outcome == ReadOutcome(dram, c.offset, c.len)
     IN  task' = [task EXCEPT ![t] =
           IF outcome = "Ok" THEN [pc |-> "ok", chunk |-> c, 
                                      data |-> ReadContent(dram, c.offset, c.len)]
           ELSE [pc |-> IF Promotable(outcome) THEN "promote" ELSE "error",
                 chunk |-> c, data |-> NoContent]]
  /\ early' = IF c \in acked THEN early ELSE early \cup {c}
  /\ UNCHANGED <<env, dram, ssd, tmp, ssdObjects, acked, before, crashes, drops>>

\* Mutant: the path of the file does not tell objects apart.
ReadSsd_SharedPath(t) ==
  /\ task[t].pc = "promote"
  /\ \E id \in ObjectIds :
       task' = [task EXCEPT ![t].pc = IF ssd[id] = NoContent THEN "error" ELSE "fill",
                            ![t].data = ssd[id]]
  /\ UNCHANGED <<env, dram, ssd, tmp, ssdObjects, acked, before, early, crashes, drops>>

\* promote_to_dram reads the file ...
ReadSsd(t) ==
  /\ task[t].pc = "promote"
  /\ task' = [task EXCEPT ![t].pc = IF ssd[task[t].chunk.id] = NoContent THEN "error" ELSE "fill",
                          ![t].data = ssd[task[t].chunk.id]]
  /\ UNCHANGED <<env, dram, ssd, tmp, ssdObjects, acked, before, early, crashes, drops>>

\* ... and the handler puts what it read into DRAM, whatever is there by now.
FillDram(t) ==
  /\ task[t].pc = "fill"
  /\ LET c == task[t].chunk
     IN  /\ dram' = WritePreallocated(dram, c.offset, c.len, task[t].data)
         /\ task' = IF WritePreallocatedOk(c.offset, c.len, task[t].data)
                    THEN [task EXCEPT ![t].pc = "ok"]
                    ELSE [task EXCEPT ![t].pc = "error", ![t].data = NoContent]
  /\ UNCHANGED <<env, ssd, tmp, ssdObjects, acked, before, early, crashes, drops>>

-----------------------------------------------------------------------------
(* POST /chunks: the node picks the place itself. A chunk whose data has   *)
(* another length than announced is allocated and stays unwritten.         *)

AllocateAndWrite(len, dataLen) ==
  /\ AllocateOk(dram, len)
  /\ dram.next + len <= env.upTo
  /\ dram' = WriteChunk(Allocate(dram, len), dram.next, len, Direct(dataLen))
  /\ UNCHANGED <<env, ssd, tmp, ssdObjects, task, acked, before, early, crashes, drops>>

-----------------------------------------------------------------------------
(* Handlers dropped at an await, and crashes. *)

\* The file operation in progress may be carried out without its handler, a rename
\* at any later time; a temporary file that is not renamed is never removed.
Drop(t) ==
  /\ drops < env.drops
  /\ \/ /\ task[t].pc \in {"persist", "rename", "cleanup", "promote"}
        /\ task' = [task EXCEPT ![t].pc = "gone"]
        /\ \/ UNCHANGED tmp
           \/ task[t].pc = "persist" /\ tmp' = tmp \cup {t}
           \/ task[t].pc = "cleanup" /\ tmp' = tmp \ {t}
     \/ /\ task[t].pc = "rename"
        /\ task' = [task EXCEPT ![t].pc = "orphan"]
        /\ UNCHANGED tmp
  /\ drops' = drops + 1
  /\ UNCHANGED <<env, dram, ssd, ssdObjects, acked, before, early, crashes>>

OrphanRename(t) ==
  /\ task[t].pc = "orphan"
  /\ ssd' = [ssd EXCEPT ![task[t].chunk.id] = task[t].chunk]
  /\ tmp' = tmp \ {t}
  /\ task' = [task EXCEPT ![t].pc = "gone"]
  /\ UNCHANGED <<env, dram, ssdObjects, acked, before, early, crashes, drops>>

Crash ==
  /\ crashes < env.crashes
  /\ dram' = EmptyDram
  /\ ssdObjects' = [id \in ObjectIds |-> 0]
  /\ task' = [t \in Tasks |-> IF task[t].pc \in WriterPCs \cup {"promote", "fill"}
                              THEN [task[t] EXCEPT !.pc = "gone"] ELSE task[t]]
  /\ crashes' = crashes + 1
  /\ UNCHANGED <<env, ssd, tmp, acked, before, early, drops>>

Next ==
  \/ \E t \in Tasks :
       \/ \E c \in env.chunks : BeginWrite(t, c) \/ ReadDram(t, c)
       \/ PersistTemp(t) \/ PersistFails(t) \/ RemoveTemp(t)
       \/ PersistRename(t) \/ RecordSsdObject(t)
       \/ ReadSsd(t) \/ FillDram(t)
       \/ Drop(t) \/ OrphanRename(t)
  \/ \E len, dataLen \in env.direct : AllocateAndWrite(len, dataLen)
  \/ Crash

Spec == Init /\ [][Next]_vars

-----------------------------------------------------------------------------
(* Properties. *)

Ok(t) == task[t].pc = "ok"

\* No torn read: whatever overlaps in the arena, and however writes, promotions
\* and crashes interleave, what a read returns is the whole of one write, of the
\* length asked for.
NoTornRead ==
  \A t \in Tasks : Ok(t) => task[t].data # NoContent /\ task[t].data.len = task[t].chunk.len

\* With an SSD, an answered write survives a crash of the process: the object's file
\* exists and holds that write or another one of the same object, never one that
\* was over before it began. Writers of one object may overlap, and a rename may be
\* carried out long after its handler is gone.
AckedOnSsd ==
  HasSsd => \A c \in acked :
    ssd[c.id] # NoContent /\ ssd[c.id].id = c.id /\ ssd[c.id] \notin before[c]

\* With one Master, a read returns the object it asked for, from DRAM or after a
\* crash from the SSD; and unless somebody asked for the chunk before its write was
\* answered, never a write that was over before that chunk's own began.
ReadsNeverGoBack ==
  env.oneMaster => \A t \in Tasks : Ok(t) =>
    LET c == task[t].chunk
    IN  task[t].data.id = c.id /\ (c \in early \/ task[t].data \notin before[c])

\* With one Master, what DRAM holds at an answered chunk's place is that object, and
\* no write that was over before the chunk's own, or nothing after a crash: a
\* promotion that read the SSD before an await never puts older bytes over newer
\* ones, unless its reader came before the chunk was answered.
DramHoldsAcked ==
  env.oneMaster => \A c \in acked :
    LET outcome == ReadOutcome(dram, c.offset, c.len)
        held == ReadContent(dram, c.offset, c.len)
    IN  \/ outcome = "InvalidHandle"
        \/ outcome = "Ok" /\ held.id = c.id /\ (c \in early \/ held \notin before[c])

\* A write that was answered with an error is never seen again: not in the file of
\* its object, and not in what a promotion read there, whatever of persist_object
\* had been done when the error came up and whether or not the temporary file could
\* be removed.
Failed(t) == task[t].pc = "error" /\ task[t].data # NoContent
FailedWriteInvisible ==
  \A t \in Tasks : Failed(t) =>
    /\ ssd[task[t].chunk.id] # task[t].chunk
    /\ \A u \in Tasks : task[u].pc = "fill" => task[u].data # task[t].chunk

\* Without crash and dropped handler the node's count of SSD bytes is what its files
\* hold, when no write is between its rename and its entry in the count, for an
\* object no two writes of which overlapped.
Sequential(id) ==
  \A c, d \in env.chunks : c.id = id /\ d.id = id /\ Written(c) /\ Written(d) =>
    c = d \/ c \in before[d] \/ d \in before[c]
SsdAccounting ==
  crashes = 0 /\ drops = 0 /\ (\A t \in Tasks : task[t].pc # "record") =>
    \A id \in ObjectIds : Sequential(id) =>
      ssdObjects[id] = IF ssd[id] = NoContent THEN 0 ELSE ssd[id].len

=============================================================================
