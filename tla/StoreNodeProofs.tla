---------------------------- MODULE StoreNodeProofs ----------------------------
(***************************************************************************)
(* Proofs about StoreNode, for every arena size, every set of handlers and *)
(* every environment: any number of crashes, dropped handlers and          *)
(* concurrent requests.                                                    *)
(***************************************************************************)
EXTENDS StoreNode, StateProofs

TaskStates == [pc : PCs, chunk : Chunks \cup {NoContent}, data : Contents \cup {NoContent}]

\* What a handler knows about its request: its chunk is one of the environment's,
\* a writer's data is that chunk's, what was read from the SSD is a write of the
\* same object, an answer is a whole content of the length asked for, and who was
\* refused has nothing, unless it was a write.
SoundState(e, pc, chunk, data) ==
  /\ pc # "idle" => chunk \in e.chunks
  /\ pc \in WriterPCs => data = chunk
  /\ pc = "promote" => HasSsd /\ data = NoContent
  /\ pc = "fill" => data \in e.chunks /\ data.id = chunk.id
  /\ pc = "ok" => data \in Contents /\ data.len = chunk.len
  /\ pc = "error" => data \in {NoContent, chunk}

HandlersSound == \A t \in Tasks : SoundState(env, task[t].pc, task[t].chunk, task[t].data)

\* The file of an object is one of its writes.
FilesSound ==
  \A id \in ObjectIds : ssd[id] # NoContent => ssd[id] \in env.chunks /\ ssd[id].id = id

\* What holds whoever calls the node.
BaseInv ==
  /\ TypeOK
  /\ Sealed(dram)
  /\ acked \subseteq env.chunks
  /\ FilesSound
  /\ HandlersSound

\* A step moves one handler, to a given state.
Moves(t, pc, chunk, data) ==
  /\ task' \in [Tasks -> TaskStates]
  /\ task'[t].pc = pc /\ task'[t].chunk = chunk /\ task'[t].data = data
  /\ \A u \in Tasks \ {t} : task'[u] = task[u]

\* The step of a writer, or of a handler that is dropped: it stays where it is or
\* gives up or is answered, its request stays what it is, and of the files at most
\* its own is replaced.
MovesOn(t, pc) ==
  /\ Moves(t, pc, task[t].chunk, task[t].data)
  /\ task[t].pc \in WriterPCs \cup {"promote"}
  /\ pc \in WriterPCs \cup {"error"} => task[t].pc \in WriterPCs \ {"record"}
  /\ pc = "ok" <=> task[t].pc = "record"
  /\ \/ ssd' = ssd /\ pc \in {"rename", "cleanup", "orphan", "ok", "error", "gone"}
     \/ /\ (pc = "record" /\ task[t].pc = "rename") \/ (pc = "gone" /\ task[t].pc = "orphan")
        /\ ssd' = [ssd EXCEPT ![task[t].chunk.id] = task[t].chunk]
  /\ env' = env /\ dram' = dram /\ before' = before /\ early' = early

-----------------------------------------------------------------------------
(* The environment. *)

\* NoContent is neither a content nor a byte.
LEMMA ContentsProper == Proper(Contents)
BY NoContentAssumption DEF Proper

\* What the environment writes lies in the arena.
LEMMA ChunkFacts ==
  ASSUME NEW c \in Chunks
  PROVE  /\ c.offset \in Nat /\ c.len \in Nat \ {0} /\ c.len \in Nat /\ c.len \in 0..ArenaSize
         /\ c.offset + c.len <= ArenaSize
         /\ c.id \in ObjectIds
         /\ c \in Contents /\ c # NoContent
<1>1. c.offset \in Nat /\ c.len \in Nat \ {0} /\ c.offset + c.len <= ArenaSize
  BY ChunksAssumption
<1>2. c.id \in ObjectIds
  BY DEF ObjectIds
<1>3. c \in Contents /\ c # NoContent
  BY NoContentAssumption DEF Contents
<1>4. QED BY <1>1, <1>2, <1>3, ArenaSizeAssumption

\* The chunks of an environment are chunks.
LEMMA EnvChunks ==
  ASSUME NEW e \in Environments
  PROVE  e.chunks \subseteq Chunks
BY DEF Chunks

\* A handler step changes the state of one handler.
LEMMA MovesTo ==
  ASSUME NEW t \in Tasks, NEW pc \in PCs, NEW chunk \in Chunks \cup {NoContent},
         NEW data \in Contents \cup {NoContent}, task \in [Tasks -> TaskStates],
         task' = [task EXCEPT ![t] = [pc |-> pc, chunk |-> chunk, data |-> data]]
  PROVE  Moves(t, pc, chunk, data)
BY DEF Moves, TaskStates

\* The same when only the step of a handler changes,
LEMMA MovesPc ==
  ASSUME NEW t \in Tasks, NEW pc \in PCs, task \in [Tasks -> TaskStates],
         task' = [task EXCEPT ![t].pc = pc]
  PROVE  Moves(t, pc, task[t].chunk, task[t].data)
BY DEF Moves, TaskStates

\* or that and what it has read.
LEMMA MovesPcData ==
  ASSUME NEW t \in Tasks, NEW pc \in PCs, NEW data \in Contents \cup {NoContent},
         task \in [Tasks -> TaskStates],
         task' = [task EXCEPT ![t].pc = pc, ![t].data = data]
  PROVE  Moves(t, pc, task[t].chunk, data)
BY DEF Moves, TaskStates

\* The other handlers stay sound.
LEMMA SoundMove ==
  ASSUME NEW t \in Tasks, NEW pc, NEW chunk, NEW data, HandlersSound, env' = env,
         Moves(t, pc, chunk, data), SoundState(env, pc, chunk, data)
  PROVE  HandlersSound'
<1>1. ASSUME NEW u \in Tasks
      PROVE  SoundState(env', task'[u].pc, task'[u].chunk, task'[u].data)
  BY DEF Moves, HandlersSound
<1>2. QED BY <1>1 DEF HandlersSound

-----------------------------------------------------------------------------
(* What holds whoever calls. *)

\* The handlers at work on a file: their step keeps the invariant.
LEMMA BaseWriters ==
  ASSUME BaseInv, NEW t \in Tasks,
         \/ PersistTemp(t) \/ PersistFails(t) \/ RemoveTemp(t) \/ PersistRename(t) \/ RecordSsdObject(t)
         \/ OrphanRename(t)
  PROVE  BaseInv' /\ \E pc : MovesOn(t, pc)
<1>1. /\ env \in Environments /\ env' = env /\ dram' = dram
      /\ task \in [Tasks -> TaskStates]
      /\ task[t].pc \in WriterPCs /\ task[t].data = task[t].chunk /\ task[t].chunk \in env.chunks
      /\ task[t].chunk \in Chunks
  BY EnvChunks DEF BaseInv, TypeOK, TaskStates, HandlersSound, SoundState, WriterPCs,
       PersistTemp, PersistFails, RemoveTemp, PersistRename, RecordSsdObject, OrphanRename
<1>2. PICK pc \in {"rename", "cleanup", "error", "record", "ok", "gone"} :
        task' = [task EXCEPT ![t].pc = pc]
  BY DEF PersistTemp, PersistFails, RemoveTemp, PersistRename, RecordSsdObject, OrphanRename
<1>3. Moves(t, pc, task[t].chunk, task[t].data)
  BY <1>1, <1>2, MovesPc DEF PCs, WriterPCs
<1>4. SoundState(env, pc, task[t].chunk, task[t].data)
  BY <1>1, <1>2, ChunkFacts DEF SoundState
<1>5. HandlersSound'
  BY <1>1, <1>3, <1>4, SoundMove DEF BaseInv
<1>6. /\ ssd' \in [ObjectIds -> Chunks \cup {NoContent}]
      /\ FilesSound'
  <2>1. CASE PersistRename(t) \/ OrphanRename(t)
    BY <1>1, <2>1, ChunkFacts DEF PersistRename, OrphanRename, BaseInv, TypeOK, FilesSound
  <2>2. CASE ssd' = ssd
    BY <1>1, <2>2 DEF BaseInv, TypeOK, FilesSound
  <2>3. QED BY <2>1, <2>2 DEF PersistTemp, PersistFails, RemoveTemp, RecordSsdObject
<1>7. tmp' \subseteq Tasks /\ acked' \subseteq Chunks /\ acked' \subseteq env'.chunks
  BY <1>1 DEF BaseInv, TypeOK, PersistTemp, PersistFails, RemoveTemp, PersistRename,
       RecordSsdObject, OrphanRename
<1>8. ssdObjects' \in [ObjectIds -> 0..ArenaSize]
  BY <1>1, ChunkFacts DEF BaseInv, TypeOK, PersistTemp, PersistFails, RemoveTemp, PersistRename,
       RecordSsdObject, OrphanRename
<1>9. crashes' = crashes /\ drops' = drops /\ before' = before /\ early' = early
  BY DEF PersistTemp, PersistFails, RemoveTemp, PersistRename, RecordSsdObject, OrphanRename
<1>10. /\ pc \in WriterPCs \cup {"error"} => task[t].pc \in {"persist", "rename", "cleanup"}
       /\ pc = "ok" <=> task[t].pc = "record"
       /\ \/ ssd' = ssd /\ pc \in {"rename", "cleanup", "ok", "error"}
          \/ /\ (pc = "record" /\ task[t].pc = "rename") \/ (pc = "gone" /\ task[t].pc = "orphan")
             /\ ssd' = [ssd EXCEPT ![task[t].chunk.id] = task[t].chunk]
  <2>1. task'[t].pc = pc
    BY <1>3 DEF Moves
  <2>2. ASSUME NEW p, task' = [task EXCEPT ![t].pc = p]
        PROVE  pc = p
    BY <1>1, <2>1, <2>2 DEF TaskStates
  <2>3. CASE PersistTemp(t)
    BY <2>2, <2>3 DEF PersistTemp, WriterPCs
  <2>4. CASE PersistFails(t)
    BY <2>2, <2>4 DEF PersistFails, WriterPCs
  <2>5. CASE RemoveTemp(t)
    BY <2>2, <2>5 DEF RemoveTemp, WriterPCs
  <2>6. CASE PersistRename(t)
    BY <2>2, <2>6 DEF PersistRename, WriterPCs
  <2>7. CASE RecordSsdObject(t)
    BY <2>2, <2>7 DEF RecordSsdObject, WriterPCs
  <2>8. CASE OrphanRename(t)
    BY <2>2, <2>8 DEF OrphanRename, WriterPCs
  <2>9. QED BY <2>3, <2>4, <2>5, <2>6, <2>7, <2>8
<1>11. MovesOn(t, pc)
  BY <1>1, <1>3, <1>9, <1>10 DEF MovesOn, WriterPCs
<1>12. QED
  BY <1>1, <1>3, <1>5, <1>6, <1>7, <1>8, <1>9, <1>11 DEF BaseInv, TypeOK, Moves, TaskStates

\* A write that arrives.
LEMMA BaseBeginWrite ==
  ASSUME BaseInv, NEW t \in Tasks, NEW c \in env.chunks, BeginWrite(t, c)
  PROVE  BaseInv' /\ Moves(t, IF HasSsd THEN "persist" ELSE "ok", c, c)
<1> DEFINE pc == IF HasSsd THEN "persist" ELSE "ok"
<1>1. /\ env \in Environments /\ c \in Chunks /\ task \in [Tasks -> TaskStates] /\ pc \in PCs
      /\ dram \in Drams(Contents) /\ Sealed(dram)
  BY EnvChunks DEF BaseInv, TypeOK, TaskStates, PCs, WriterPCs
<1>2. c \in Contents /\ c.offset \in Nat /\ c.len \in Nat
  BY <1>1, ChunkFacts
<1> HIDE DEF pc
<1>3. Moves(t, pc, c, c)
  BY <1>1, <1>2, MovesTo DEF BeginWrite, pc
<1>4. SoundState(env, pc, c, c)
  BY <1>2 DEF SoundState, pc
<1>5. HandlersSound'
  BY <1>3, <1>4, SoundMove DEF BaseInv, BeginWrite
<1>6. dram' \in Drams(Contents) /\ Sealed(dram')
  BY <1>1, <1>2, WritePreallocatedType DEF BeginWrite
<1>7. acked' \subseteq env.chunks /\ before' \in [Chunks -> SUBSET Chunks]
  BY <1>1, EnvChunks DEF BaseInv, TypeOK, BeginWrite
<1>8. /\ env' = env /\ ssd' = ssd /\ tmp' = tmp /\ ssdObjects' = ssdObjects
      /\ crashes' = crashes /\ drops' = drops /\ early' = early
  BY DEF BeginWrite
<1>9. BaseInv'
  BY <1>1, <1>3, <1>5, <1>6, <1>7, <1>8, EnvChunks
     DEF BaseInv, TypeOK, Moves, TaskStates, FilesSound
<1>10. QED BY <1>3, <1>9 DEF pc

\* A read that finds its chunk in DRAM, or does not.
LEMMA BaseReadDram ==
  ASSUME BaseInv, NEW t \in Tasks, NEW c \in env.chunks, ReadDram(t, c)
  PROVE  /\ BaseInv'
         /\ \/ /\ ReadOutcome(dram, c.offset, c.len) = "Ok"
               /\ Moves(t, "ok", c, ReadContent(dram, c.offset, c.len))
            \/ HasSsd /\ Moves(t, "promote", c, NoContent)
            \/ Moves(t, "error", c, NoContent)
<1> DEFINE outcome == ReadOutcome(dram, c.offset, c.len)
           data == ReadContent(dram, c.offset, c.len)
<1>1. /\ env \in Environments /\ c \in Chunks /\ task \in [Tasks -> TaskStates]
      /\ dram \in Drams(Contents) /\ Sealed(dram)
  BY EnvChunks DEF BaseInv, TypeOK, TaskStates
<1>2. c \in Contents /\ c.offset \in Nat /\ c.len \in Nat
  BY <1>1, ChunkFacts
<1>3. {"ok", "promote", "error"} \subseteq PCs
  BY DEF PCs, WriterPCs
<1>4. outcome = "Ok" => data \in Contents /\ data.len = c.len
  BY <1>1, <1>2, ContentsProper, ReadOk
<1>5. /\ outcome = "Ok" => task' = [task EXCEPT ![t] = [pc |-> "ok", chunk |-> c, data |-> data]]
      /\ outcome # "Ok" /\ Promotable(outcome) =>
           task' = [task EXCEPT ![t] = [pc |-> "promote", chunk |-> c, data |-> NoContent]]
      /\ outcome # "Ok" /\ ~Promotable(outcome) =>
           task' = [task EXCEPT ![t] = [pc |-> "error", chunk |-> c, data |-> NoContent]]
  BY DEF ReadDram
<1>6. Promotable(outcome) => HasSsd
  BY DEF Promotable
<1> HIDE DEF outcome, data
<1>7. CASE outcome = "Ok"
  <2>1. Moves(t, "ok", c, data)
    BY <1>1, <1>3, <1>4, <1>5, <1>7, MovesTo
  <2>2. SoundState(env, "ok", c, data)
    BY <1>4, <1>7 DEF SoundState, WriterPCs
  <2>3. HandlersSound'
    BY <2>1, <2>2, SoundMove DEF BaseInv, ReadDram
  <2>4. BaseInv'
    BY <1>1, <2>1, <2>3 DEF ReadDram, BaseInv, TypeOK, Moves, TaskStates, FilesSound
  <2>5. QED BY <1>7, <2>1, <2>4 DEF outcome, data
<1>8. CASE outcome # "Ok" /\ Promotable(outcome)
  <2>1. Moves(t, "promote", c, NoContent)
    BY <1>1, <1>3, <1>5, <1>8, MovesTo
  <2>2. SoundState(env, "promote", c, NoContent)
    BY <1>6, <1>8 DEF SoundState, WriterPCs
  <2>3. HandlersSound'
    BY <2>1, <2>2, SoundMove DEF BaseInv, ReadDram
  <2>4. BaseInv'
    BY <1>1, <2>1, <2>3 DEF ReadDram, BaseInv, TypeOK, Moves, TaskStates, FilesSound
  <2>5. QED BY <1>6, <1>8, <2>1, <2>4
<1>9. CASE outcome # "Ok" /\ ~Promotable(outcome)
  <2>1. Moves(t, "error", c, NoContent)
    BY <1>1, <1>3, <1>5, <1>9, MovesTo
  <2>2. SoundState(env, "error", c, NoContent)
    BY DEF SoundState, WriterPCs
  <2>3. HandlersSound'
    BY <2>1, <2>2, SoundMove DEF BaseInv, ReadDram
  <2>4. BaseInv'
    BY <1>1, <2>1, <2>3 DEF ReadDram, BaseInv, TypeOK, Moves, TaskStates, FilesSound
  <2>5. QED BY <2>1, <2>4
<1>10. QED BY <1>7, <1>8, <1>9

\* A read that goes to the file of its object.
LEMMA BaseReadSsd ==
  ASSUME BaseInv, NEW t \in Tasks, ReadSsd(t)
  PROVE  /\ BaseInv'
         /\ task[t].pc = "promote" /\ task[t].chunk \in env.chunks
         /\ LET data == ssd[task[t].chunk.id]
            IN  Moves(t, IF data = NoContent THEN "error" ELSE "fill", task[t].chunk, data)
<1> DEFINE chunk == task[t].chunk
           data == ssd[chunk.id]
           pc == IF data = NoContent THEN "error" ELSE "fill"
<1>1. /\ env \in Environments /\ task \in [Tasks -> TaskStates] /\ pc \in PCs
      /\ task[t].pc = "promote" /\ chunk \in env.chunks /\ chunk \in Chunks
  BY EnvChunks DEF BaseInv, TypeOK, TaskStates, PCs, WriterPCs, HandlersSound, SoundState, ReadSsd
<1>2. /\ chunk.id \in ObjectIds
      /\ data \in Contents \cup {NoContent}
      /\ data # NoContent => data \in env.chunks /\ data.id = chunk.id
  <2>1. chunk.id \in ObjectIds
    BY <1>1, ChunkFacts
  <2>2. data \in Chunks \cup {NoContent}
    BY <2>1 DEF BaseInv, TypeOK
  <2>3. data # NoContent => data \in env.chunks /\ data.id = chunk.id
    BY <2>1 DEF BaseInv, FilesSound
  <2>4. QED BY <2>1, <2>2, <2>3, ChunkFacts
<1>3. task' = [task EXCEPT ![t].pc = pc, ![t].data = data]
  BY DEF ReadSsd
<1>4. SoundState(env, pc, chunk, data)
  BY <1>1, <1>2 DEF SoundState, WriterPCs
<1> HIDE DEF data, pc
<1>5. Moves(t, pc, chunk, data)
  BY <1>1, <1>2, <1>3, MovesPcData
<1>6. HandlersSound'
  BY <1>4, <1>5, SoundMove DEF BaseInv, ReadSsd
<1>7. BaseInv'
  BY <1>5, <1>6 DEF ReadSsd, BaseInv, TypeOK, Moves, TaskStates, FilesSound
<1>8. QED BY <1>1, <1>5, <1>7 DEF data, pc

\* A read that puts into DRAM what it read from the file.
LEMMA BaseFillDram ==
  ASSUME BaseInv, NEW t \in Tasks, FillDram(t)
  PROVE  /\ BaseInv'
         /\ task[t].pc = "fill" /\ task[t].chunk \in env.chunks /\ task[t].data \in env.chunks
         /\ task[t].data.id = task[t].chunk.id
         /\ \/ Moves(t, "ok", task[t].chunk, task[t].data)
            \/ Moves(t, "error", task[t].chunk, NoContent)
<1> DEFINE c == task[t].chunk
           data == task[t].data
<1>1. /\ env \in Environments /\ task \in [Tasks -> TaskStates] /\ env.chunks \subseteq Chunks
      /\ dram \in Drams(Contents) /\ Sealed(dram)
      /\ task[t].pc = "fill" /\ c \in env.chunks /\ data \in env.chunks /\ data.id = c.id
  BY EnvChunks DEF BaseInv, TypeOK, TaskStates, HandlersSound, SoundState, FillDram
<1>2. c.offset \in Nat /\ c.len \in Nat /\ data \in Contents
  BY <1>1, ChunkFacts
<1>3. dram' = WritePreallocated(dram, c.offset, c.len, data)
  BY DEF FillDram
<1>4. {"ok", "error"} \subseteq PCs
  BY DEF PCs, WriterPCs
<1>5. dram' \in Drams(Contents) /\ Sealed(dram')
  <2> HIDE DEF c, data
  <2>1. QED BY <1>1, <1>2, <1>3, WritePreallocatedType
<1>6. CASE WritePreallocatedOk(c.offset, c.len, data)
  <2>1. Moves(t, "ok", c, data)
    BY <1>1, <1>4, <1>6, MovesPc DEF FillDram
  <2>2. SoundState(env, "ok", c, data)
    BY <1>1, <1>2, <1>6 DEF SoundState, WriterPCs, WritePreallocatedOk
  <2>3. HandlersSound'
    BY <2>1, <2>2, SoundMove DEF BaseInv, FillDram
  <2>4. QED
    BY <1>1, <1>5, <2>1, <2>3 DEF FillDram, BaseInv, TypeOK, Moves, TaskStates, FilesSound
<1>7. CASE ~WritePreallocatedOk(c.offset, c.len, data)
  <2>1. Moves(t, "error", c, NoContent)
    BY <1>1, <1>4, <1>7, MovesPcData DEF FillDram
  <2>2. SoundState(env, "error", c, NoContent)
    BY <1>1 DEF SoundState, WriterPCs
  <2>3. HandlersSound'
    BY <2>1, <2>2, SoundMove DEF BaseInv, FillDram
  <2>4. QED
    BY <1>1, <1>5, <2>1, <2>3 DEF FillDram, BaseInv, TypeOK, Moves, TaskStates, FilesSound
<1>8. QED BY <1>6, <1>7

\* A handler that is dropped.
LEMMA BaseDrop ==
  ASSUME BaseInv, NEW t \in Tasks, Drop(t)
  PROVE  BaseInv' /\ ssd' = ssd /\ drops' # 0 /\ \E pc : MovesOn(t, pc)
<1>1. /\ env \in Environments /\ env' = env /\ task \in [Tasks -> TaskStates]
      /\ task[t].chunk \in env.chunks /\ task[t].pc \in {"persist", "rename", "cleanup", "promote"}
  BY EnvChunks DEF BaseInv, TypeOK, TaskStates, HandlersSound, SoundState, Drop
<1>2. PICK pc \in {"gone", "orphan"} : (pc = "orphan" => task[t].pc = "rename")
                                       /\ task' = [task EXCEPT ![t].pc = pc]
  BY DEF Drop
<1>3. Moves(t, pc, task[t].chunk, task[t].data)
  BY <1>1, <1>2, MovesPc DEF PCs, WriterPCs
<1>4. SoundState(env, pc, task[t].chunk, task[t].data)
  BY <1>1, <1>2 DEF SoundState, WriterPCs, BaseInv, HandlersSound
<1>5. HandlersSound'
  BY <1>1, <1>3, <1>4, SoundMove DEF BaseInv
<1>6. /\ tmp' \subseteq Tasks /\ drops' \in 0..env.drops /\ drops' # 0
      /\ ssd' = ssd /\ dram' = dram /\ before' = before /\ early' = early
  BY <1>1, EnvironmentAssumption DEF Drop, BaseInv, TypeOK
<1>7. MovesOn(t, pc)
  BY <1>1, <1>2, <1>3, <1>6 DEF MovesOn, WriterPCs
<1>8. QED
  BY <1>1, <1>3, <1>5, <1>6, <1>7 DEF Drop, BaseInv, TypeOK, Moves, TaskStates, FilesSound

\* Writes without an object, and crashes.
LEMMA BaseOthers ==
  ASSUME BaseInv,
         \/ \E len, dataLen \in env.direct : AllocateAndWrite(len, dataLen)
         \/ Crash
         \/ UNCHANGED vars
  PROVE  BaseInv'
<1>1. CASE \E len, dataLen \in env.direct : AllocateAndWrite(len, dataLen)
  <2>1. PICK len \in env.direct, dataLen \in env.direct : AllocateAndWrite(len, dataLen)
    BY <1>1
  <2>2. len \in Nat /\ Direct(dataLen) \in Contents
    BY EnvironmentAssumption DEF BaseInv, TypeOK, Contents
  <2>3. dram' \in Drams(Contents) /\ Sealed(dram')
    BY <2>1, <2>2, AllocateAndWriteType DEF BaseInv, TypeOK, AllocateAndWrite
  <2>4. QED
    BY <2>1, <2>3 DEF BaseInv, TypeOK, AllocateAndWrite, FilesSound, HandlersSound
<1>3. CASE Crash
  <2>1. dram' \in Drams(Contents) /\ Sealed(dram')
    BY <1>3, EmptyDramType DEF Crash
  <2>2. ssdObjects' \in [ObjectIds -> 0..ArenaSize]
    BY <1>3, ArenaSizeAssumption DEF Crash
  <2>3. crashes' \in 0..env.crashes
    BY <1>3, EnvironmentAssumption DEF Crash, BaseInv, TypeOK
  <2>4. task \in [Tasks -> TaskStates]
    BY DEF BaseInv, TypeOK, TaskStates
  <2>5. ASSUME NEW t \in Tasks
        PROVE  /\ task'[t] \in TaskStates
               /\ SoundState(env, task'[t].pc, task'[t].chunk, task'[t].data)
    <3>1. SoundState(env, task[t].pc, task[t].chunk, task[t].data)
      BY DEF BaseInv, HandlersSound
    <3>2. CASE task'[t] = task[t]
      BY <2>4, <3>1, <3>2
    <3>3. CASE task[t].pc # "idle" /\ task'[t] = [task[t] EXCEPT !.pc = "gone"]
      BY <2>4, <3>1, <3>3 DEF TaskStates, PCs, SoundState, WriterPCs
    <3>4. QED BY <1>3, <3>2, <3>3 DEF Crash, WriterPCs
  <2>6. task' \in [Tasks -> TaskStates]
    BY <1>3, <2>5 DEF Crash
  <2>7. HandlersSound'
    BY <1>3, <2>5 DEF Crash, HandlersSound
  <2>8. QED
    BY <1>3, <2>1, <2>2, <2>3, <2>6, <2>7 DEF Crash, BaseInv, TypeOK, TaskStates, FilesSound
<1>4. CASE UNCHANGED vars
  BY <1>4 DEF vars, BaseInv, TypeOK, FilesSound, HandlersSound
<1>5. QED BY <1>1, <1>3, <1>4

\* The invariant that holds whoever calls.
LEMMA BaseInvariant == Spec => []BaseInv
<1>1. Init => BaseInv
  <2> SUFFICES ASSUME Init PROVE BaseInv
    OBVIOUS
  <2>1. EmptyDram \in Drams(Contents) /\ Sealed(EmptyDram)
    BY EmptyDramType
  <2>2. Idle \in TaskStates /\ \A t \in Tasks : task[t] = Idle
    BY DEF Init, Idle, TaskStates, PCs
  <2>3. HandlersSound
    BY <2>2 DEF HandlersSound, SoundState, Idle, WriterPCs
  <2>4. TypeOK
    BY <2>1, <2>2, EnvironmentAssumption, ArenaSizeAssumption DEF Init, TypeOK, TaskStates
  <2>5. QED BY <2>1, <2>3, <2>4 DEF Init, BaseInv, FilesSound
<1>2. BaseInv /\ [Next]_vars => BaseInv'
  BY BaseWriters, BaseBeginWrite, BaseReadDram, BaseReadSsd, BaseFillDram, BaseDrop, BaseOthers DEF Next
<1>3. QED BY <1>1, <1>2, PTL DEF Spec

\* The node's state has its type, and the arena stays well formed, whoever calls
\* the node and however its handlers interleave, fail or are dropped.
THEOREM NodeTypeCorrect == Spec => []TypeOK
<1>1. BaseInv => TypeOK
  BY DEF BaseInv
<1>2. QED BY <1>1, BaseInvariant, PTL

\* A read answered with success is a whole content of the length asked for,
\* whatever overlaps in the arena: NoTornRead.
THEOREM ReadsAreWhole == Spec => []NoTornRead
<1>1. BaseInv => NoTornRead
  BY NoContentAssumption DEF BaseInv, HandlersSound, SoundState, NoTornRead, Ok
<1>2. QED BY <1>1, BaseInvariant, PTL

-----------------------------------------------------------------------------
(* Writes: what holds of them whoever calls. *)

\* Two handlers never write the same chunk.
WritersApart ==
  \A t, u \in Tasks : task[t].pc \in WriterPCs /\ task[u].pc \in WriterPCs
                      /\ task[t].chunk = task[u].chunk => t = u

\* What was over when a write began is still over, and is another write.
BeforeOver ==
  \A c \in Chunks, d \in Chunks : d \in before[c] => d # c /\ Written(d) /\ ~Writing(d)

\* What a file holds, or a promotion found in one, was written.
FilesWritten ==
  /\ \A id \in ObjectIds : ssd[id] # NoContent => Written(ssd[id])
  /\ \A t \in Tasks : task[t].pc = "fill" => Written(task[t].data)

\* The file of a write that was renamed and is not answered yet holds no write that
\* was over before it began.
RecordsFresh ==
  \A t \in Tasks : task[t].pc = "record" =>
    LET c == task[t].chunk IN ssd[c.id] # NoContent /\ ssd[c.id] \notin before[c]

\* A write that is not renamed yet, or was answered with an error, is not seen,
Unrenamed(t) == task[t].pc \in {"persist", "rename", "cleanup", "orphan"} \/ Failed(t)
UnrenamedInvisible ==
  \A t \in Tasks : Unrenamed(t) =>
    /\ ssd[task[t].chunk.id] # task[t].chunk
    /\ \A u \in Tasks : task[u].pc = "fill" => task[u].data # task[t].chunk

\* and nobody is at work on a chunk whose write was answered with an error.
FailedApart ==
  \A t, u \in Tasks : Failed(t) /\ task[u].pc \in WriterPCs => task[u].chunk # task[t].chunk

\* Of an object no two writes of which overlapped, what is renamed stays until it is
\* counted, and without crash or drop what nobody is about to count is counted.
RecordedInPlace ==
  \A t \in Tasks : task[t].pc = "record" /\ Sequential(task[t].chunk.id) =>
    ssd[task[t].chunk.id] = task[t].chunk

Counted(id) == ssdObjects[id] = IF ssd[id] = NoContent THEN 0 ELSE ssd[id].len
CountedRight ==
  crashes = 0 /\ drops = 0 => \A id \in ObjectIds :
    Sequential(id) /\ (\A t \in Tasks : task[t].pc = "record" => task[t].chunk.id # id) => Counted(id)

\* Renames without a handler are those of dropped handlers.
OrphansDropped == \A t \in Tasks : task[t].pc = "orphan" => drops # 0

WriteInv ==
  /\ WritersApart
  /\ BeforeOver
  /\ FilesWritten
  /\ RecordsFresh
  /\ AckedOnSsd
  /\ UnrenamedInvisible
  /\ FailedApart
  /\ RecordedInPlace
  /\ CountedRight
  /\ OrphansDropped

\* The step of a reader: it learns something or is answered; it carries what the
\* file of its object holds, and forgets it only if it is of no use.
Reads(t, pc, chunk, data) ==
  /\ Moves(t, pc, chunk, data)
  /\ task[t].pc \in {"idle", "promote", "fill"} /\ pc \in {"promote", "fill", "ok", "error"}
  /\ IF task[t].pc = "idle" THEN task[t].chunk = NoContent ELSE chunk = task[t].chunk
  /\ task[t].data = NoContent \/ task[t].data = data \/ task[t].data # task[t].chunk
  /\ pc = "error" => data = NoContent
  /\ pc = "fill" => chunk.id \in ObjectIds /\ data = ssd[chunk.id] /\ data # NoContent
  /\ env' = env /\ ssd' = ssd /\ ssdObjects' = ssdObjects /\ acked' = acked /\ before' = before
  /\ crashes' = crashes /\ drops' = drops

\* Every step of a reader is one.
LEMMA ReadersRead ==
  ASSUME BaseInv, NEW t \in Tasks,
         (\E c \in env.chunks : ReadDram(t, c)) \/ ReadSsd(t) \/ FillDram(t)
  PROVE  \E pc, chunk, data : Reads(t, pc, chunk, data)
<1>1. ASSUME NEW c \in env.chunks, ReadDram(t, c)
      PROVE  \E pc, chunk, data : Reads(t, pc, chunk, data)
  <2>1. task[t].pc = "idle" /\ task[t].chunk = NoContent /\ task[t].data = NoContent
    BY <1>1 DEF ReadDram, Arrives, Idle
  <2>2. \E pc, data : /\ pc \in {"ok", "promote", "error"}
                      /\ Moves(t, pc, c, data) /\ (pc = "error" => data = NoContent)
    BY <1>1, BaseReadDram
  <2>3. QED BY <1>1, <2>1, <2>2 DEF Reads, ReadDram
<1>2. ASSUME ReadSsd(t)
      PROVE  \E pc, chunk, data : Reads(t, pc, chunk, data)
  <2> DEFINE c == task[t].chunk
             data == ssd[c.id]
  <2>1. /\ task[t].pc = "promote" /\ task[t].data = NoContent /\ c \in env.chunks
        /\ Moves(t, IF data = NoContent THEN "error" ELSE "fill", c, data)
    BY <1>2, BaseReadSsd DEF BaseInv, HandlersSound, SoundState
  <2>2. c.id \in ObjectIds
    BY <2>1, EnvChunks, ChunkFacts DEF BaseInv, TypeOK
  <2>3. CASE data = NoContent
    <3>1. Reads(t, "error", c, NoContent)
      BY <1>2, <2>1, <2>3 DEF Reads, ReadSsd
    <3>2. QED BY <3>1
  <2>4. CASE data # NoContent
    <3>1. Reads(t, "fill", c, data)
      BY <1>2, <2>1, <2>2, <2>4 DEF Reads, ReadSsd
    <3>2. QED BY <3>1
  <2>5. QED BY <2>3, <2>4
<1>3. ASSUME FillDram(t)
      PROVE  \E pc, chunk, data : Reads(t, pc, chunk, data)
  <2> DEFINE c == task[t].chunk
             data == task[t].data
  <2>1. task[t].pc = "fill" /\ c \in env.chunks /\ c \in Chunks /\ task \in [Tasks -> TaskStates]
    BY <1>3, BaseFillDram, EnvChunks DEF BaseInv, TypeOK, TaskStates
  <2>2. CASE WritePreallocatedOk(c.offset, c.len, data)
    <3>1. Moves(t, "ok", c, data)
      BY <1>3, <2>1, <2>2, MovesPc DEF FillDram, PCs
    <3>2. Reads(t, "ok", c, data)
      BY <1>3, <2>1, <3>1 DEF Reads, FillDram
    <3>3. QED BY <3>2
  <2>3. CASE ~WritePreallocatedOk(c.offset, c.len, data)
    <3>1. Moves(t, "error", c, NoContent)
      BY <1>3, <2>1, <2>3, MovesPcData DEF FillDram, PCs
    <3>2. data # c
      BY <2>1, <2>3, ChunkFacts DEF WritePreallocatedOk
    <3>3. Reads(t, "error", c, NoContent)
      BY <1>3, <2>1, <3>1, <3>2 DEF Reads, FillDram
    <3>4. QED BY <3>3
  <2>4. QED BY <2>2, <2>3
<1>4. QED BY <1>1, <1>2, <1>3

\* A reader's step keeps what is known of writes.
LEMMA WriteInvReaders ==
  ASSUME BaseInv, WriteInv, NEW t \in Tasks, NEW pc, NEW chunk, NEW data, Reads(t, pc, chunk, data)
  PROVE  WriteInv'
<1>1. /\ WritersApart /\ BeforeOver /\ FilesWritten /\ RecordsFresh /\ AckedOnSsd /\ UnrenamedInvisible
      /\ FailedApart /\ RecordedInPlace /\ CountedRight /\ OrphansDropped
  BY DEF WriteInv
<1>2. /\ Moves(t, pc, chunk, data)
      /\ task[t].pc \in {"idle", "promote", "fill"} /\ pc \in {"promote", "fill", "ok", "error"}
      /\ env' = env /\ ssd' = ssd /\ ssdObjects' = ssdObjects /\ acked' = acked /\ before' = before
      /\ crashes' = crashes /\ drops' = drops
  BY DEF Reads
<1>3. ASSUME NEW u \in Tasks, task'[u].pc \in WriterPCs \/ Failed(u)'
      PROVE  u # t /\ task'[u] = task[u]
  BY <1>2, <1>3 DEF Moves, Failed, Reads, WriterPCs
<1>4. ASSUME NEW d \in Chunks, Written(d)
      PROVE  Written(d)'
  <2>1. d # NoContent
    BY ChunkFacts
  <2>2. PICK u \in Tasks : task[u].chunk = d /\ task[u].data = d
    BY <1>4 DEF Written
  <2>3. task'[u].chunk = d /\ task'[u].data = d
    BY <1>2, <2>1, <2>2 DEF Moves, Reads
  <2>4. QED BY <2>3 DEF Written
<1>5. ASSUME NEW d, Writing(d)'
      PROVE  Writing(d)
  BY <1>3, <1>5 DEF Writing
<1>6. ASSUME NEW id, Sequential(id)'
      PROVE  Sequential(id)
  <2>1. env.chunks \subseteq Chunks
    BY EnvChunks DEF BaseInv, TypeOK
  <2>2. QED BY <1>2, <1>4, <1>6, <2>1 DEF Sequential
<1>7. WritersApart'
  BY <1>1, <1>3 DEF WritersApart
<1>8. BeforeOver'
  BY <1>1, <1>2, <1>4, <1>5 DEF BeforeOver
<1>9. /\ ssd \in [ObjectIds -> Chunks \cup {NoContent}]
      /\ \A u \in Tasks : task[u].pc = "fill" => task[u].data \in Chunks
  BY EnvChunks DEF BaseInv, TypeOK, HandlersSound, SoundState
<1>10. ASSUME NEW u \in Tasks, task'[u].pc = "fill"
       PROVE  \/ task[u].pc = "fill" /\ task'[u].data = task[u].data
              \/ \E id \in ObjectIds : ssd[id] # NoContent /\ task'[u].data = ssd[id]
  BY <1>2, <1>10 DEF Moves, Reads
<1>11. FilesWritten'
  <2>1. \A d \in Chunks : Written(d) => Written(d)'
    BY <1>4
  <2>2. ASSUME NEW id \in ObjectIds, ssd'[id] # NoContent
        PROVE  Written(ssd[id])'
    <3>1. ssd[id] \in Chunks /\ Written(ssd[id])
      BY <1>1, <1>2, <1>9, <2>2 DEF FilesWritten
    <3>2. QED BY <1>2, <2>1, <3>1 DEF Written
  <2>3. ASSUME NEW u \in Tasks, task'[u].pc = "fill"
        PROVE  Written(task[u].data)'
    <3>1. task'[u].data \in Chunks /\ Written(task'[u].data)
      BY <1>1, <1>9, <1>10, <2>3 DEF FilesWritten
    <3>2. QED BY <2>1, <3>1 DEF Written
  <2>4. QED BY <2>2, <2>3 DEF FilesWritten
<1>12. RecordsFresh'
  BY <1>1, <1>2, <1>3 DEF RecordsFresh, WriterPCs
<1>13. AckedOnSsd'
  BY <1>1, <1>2 DEF AckedOnSsd
<1>14. UnrenamedInvisible'
  <2> SUFFICES ASSUME NEW u \in Tasks, Unrenamed(u)'
               PROVE  /\ ssd'[task'[u].chunk.id] # task'[u].chunk
                      /\ \A v \in Tasks : task'[v].pc = "fill" => task'[v].data # task'[u].chunk
    BY DEF UnrenamedInvisible
  <2>1. task'[u] = task[u] /\ Unrenamed(u)
    BY <1>3 DEF Unrenamed, Failed, WriterPCs
  <2>2. /\ ssd[task[u].chunk.id] # task[u].chunk
        /\ \A v \in Tasks : task[v].pc = "fill" => task[v].data # task[u].chunk
    BY <1>1, <2>1 DEF UnrenamedInvisible
  <2>3. \A id \in ObjectIds : ssd[id] # NoContent => ssd[id] # task[u].chunk
    BY <2>2 DEF BaseInv, FilesSound
  <2>4. QED BY <1>2, <1>10, <2>1, <2>2, <2>3
<1>15. FailedApart'
  BY <1>1, <1>3 DEF FailedApart, Failed
<1>16. RecordedInPlace'
  BY <1>1, <1>2, <1>3, <1>6 DEF RecordedInPlace, WriterPCs
<1>17. CountedRight'
  <2> SUFFICES ASSUME crashes' = 0, drops' = 0, NEW id \in ObjectIds, Sequential(id)',
                      \A u \in Tasks : task'[u].pc = "record" => task'[u].chunk.id # id
               PROVE  Counted(id)'
    BY DEF CountedRight
  <2>1. \A u \in Tasks : task[u].pc = "record" => task[u].chunk.id # id
    BY <1>2 DEF Moves
  <2>2. Counted(id)
    BY <1>1, <1>2, <1>6, <2>1 DEF CountedRight
  <2>3. QED BY <1>2, <2>2 DEF Counted
<1>18. OrphansDropped'
  BY <1>1, <1>2, <1>3 DEF OrphansDropped, WriterPCs
<1>19. QED
  BY <1>7, <1>8, <1>11, <1>12, <1>13, <1>14, <1>15, <1>16, <1>17, <1>18 DEF WriteInv

\* A step that leaves every request as it is, lets nobody write who did not, and
\* replaces at most the file of one write that is under way.
Continues ==
  /\ env' = env /\ before' = before
  /\ \A u \in Tasks : /\ task'[u].chunk = task[u].chunk /\ task'[u].data = task[u].data
                      /\ task'[u].pc \in WriterPCs => task[u].pc \in WriterPCs
                      /\ task'[u].pc = "fill" => task[u].pc = "fill"
                      /\ Unrenamed(u)' => Unrenamed(u)
  /\ \/ ssd' = ssd
     \/ \E t \in Tasks : /\ task[t].pc \in {"rename", "orphan"} /\ ~Unrenamed(t)'
                         /\ ssd' = [ssd EXCEPT ![task[t].chunk.id] = task[t].chunk]

\* What such a step keeps.
LEMMA WriteInvContinues ==
  ASSUME BaseInv, WriteInv, Continues
  PROVE  /\ WritersApart' /\ BeforeOver' /\ FilesWritten' /\ UnrenamedInvisible'
         /\ \A id : Sequential(id)' <=> Sequential(id)
<1>1. WritersApart /\ BeforeOver /\ FilesWritten /\ UnrenamedInvisible /\ FailedApart
  BY DEF WriteInv
<1>2. \A d : Written(d)' <=> Written(d)
  BY DEF Continues, Written
<1>3. \A d : Writing(d)' => Writing(d)
  BY DEF Continues, Writing
<1>4. WritersApart'
  BY <1>1 DEF WritersApart, Continues
<1>5. BeforeOver'
  BY <1>1, <1>2, <1>3 DEF BeforeOver, Continues
<1>6. \A id : Sequential(id)' <=> Sequential(id)
  BY <1>2 DEF Sequential, Continues
<1>7. /\ ssd \in [ObjectIds -> Chunks \cup {NoContent}] /\ env.chunks \subseteq Chunks
      /\ \A u \in Tasks : task[u].pc # "idle" => /\ task[u].chunk \in Chunks
                                                 /\ task[u].chunk.id \in ObjectIds
      /\ \A u \in Tasks : task[u].pc \in WriterPCs => task[u].data = task[u].chunk
  BY EnvChunks, ChunkFacts DEF BaseInv, TypeOK, HandlersSound, SoundState
<1>8. CASE ssd' = ssd
  <2>1. FilesWritten'
    BY <1>1, <1>2, <1>8 DEF FilesWritten, Continues
  <2>2. UnrenamedInvisible'
    BY <1>1, <1>8 DEF UnrenamedInvisible, Continues
  <2>3. QED BY <1>4, <1>5, <1>6, <2>1, <2>2
<1>9. ASSUME NEW t \in Tasks, task[t].pc \in {"rename", "orphan"}, ~Unrenamed(t)',
             ssd' = [ssd EXCEPT ![task[t].chunk.id] = task[t].chunk]
      PROVE  FilesWritten' /\ UnrenamedInvisible'
  <2>1. /\ Written(task[t].chunk) /\ task[t].chunk.id \in ObjectIds /\ task[t].pc \in WriterPCs
        /\ task[t].pc # "idle"
    BY <1>7, <1>9 DEF Written, WriterPCs
  <2>2. FilesWritten'
    <3>1. \A id \in ObjectIds : ssd'[id] # NoContent => Written(ssd'[id])
      BY <1>1, <1>7, <1>9, <2>1 DEF FilesWritten
    <3>2. QED BY <1>1, <1>2, <3>1 DEF FilesWritten, Continues
  <2>3. ASSUME NEW u \in Tasks, Unrenamed(u)'
        PROVE  /\ ssd'[task'[u].chunk.id] # task'[u].chunk
               /\ \A v \in Tasks : task'[v].pc = "fill" => task'[v].data # task'[u].chunk
    <3>1. u # t /\ Unrenamed(u) /\ task'[u].chunk = task[u].chunk
      BY <1>9, <2>3 DEF Continues
    <3>2. task[u].chunk # task[t].chunk
      BY <1>1, <2>1, <3>1 DEF Unrenamed, WritersApart, FailedApart, WriterPCs
    <3>3. task[u].pc # "idle" /\ task[u].chunk.id \in ObjectIds
      BY <1>7, <3>1 DEF Unrenamed, Failed
    <3>4. ssd'[task[u].chunk.id] # task[u].chunk
      BY <1>1, <1>7, <1>9, <2>1, <3>1, <3>2, <3>3 DEF UnrenamedInvisible
    <3>5. QED BY <1>1, <3>1, <3>4 DEF UnrenamedInvisible, Continues
  <2>4. QED BY <2>2, <2>3 DEF UnrenamedInvisible
<1>10. QED BY <1>4, <1>5, <1>6, <1>8, <1>9 DEF Continues

\* The step of a writer, or of a handler that is dropped, keeps what is known.
LEMMA WriteInvWriters ==
  ASSUME BaseInv, BaseInv', WriteInv, NEW t \in Tasks, NEW pc, MovesOn(t, pc), crashes' = crashes,
         IF pc = "ok"
         THEN acked' = acked \cup {task[t].chunk} /\
              ssdObjects' = [ssdObjects EXCEPT ![task[t].chunk.id] = task[t].chunk.len]
         ELSE acked' = acked /\ ssdObjects' = ssdObjects,
         drops' = 0 => drops = 0 /\ pc # "orphan"
  PROVE  WriteInv'
<1>1. /\ WritersApart /\ BeforeOver /\ FilesWritten /\ RecordsFresh /\ AckedOnSsd /\ UnrenamedInvisible
      /\ FailedApart /\ RecordedInPlace /\ CountedRight /\ OrphansDropped
  BY DEF WriteInv
<1> DEFINE c == task[t].chunk
<1>2. /\ Moves(t, pc, c, task[t].data)
      /\ task[t].pc \in WriterPCs \cup {"promote"}
      /\ pc \in WriterPCs \cup {"error"} => task[t].pc \in WriterPCs \ {"record"}
      /\ pc = "ok" <=> task[t].pc = "record"
      /\ \/ ssd' = ssd /\ pc \in {"rename", "cleanup", "orphan", "ok", "error", "gone"}
         \/ /\ (pc = "record" /\ task[t].pc = "rename") \/ (pc = "gone" /\ task[t].pc = "orphan")
            /\ ssd' = [ssd EXCEPT ![c.id] = c]
      /\ env' = env /\ before' = before
  BY DEF MovesOn
<1>3. /\ ssd \in [ObjectIds -> Chunks \cup {NoContent}] /\ env.chunks \subseteq Chunks
      /\ acked \subseteq Chunks /\ ssdObjects \in [ObjectIds -> 0..ArenaSize]
      /\ \A u \in Tasks : task[u].pc # "idle" => /\ task[u].chunk \in env.chunks
                                                 /\ task[u].chunk \in Chunks
                                                 /\ task[u].chunk # NoContent
                                                 /\ task[u].chunk.id \in ObjectIds
      /\ \A u \in Tasks : task[u].pc \in WriterPCs => task[u].data = task[u].chunk
      /\ \A d \in Chunks : d.id \in ObjectIds
  BY EnvChunks, ChunkFacts DEF BaseInv, TypeOK, HandlersSound, SoundState
<1>4. c \in Chunks /\ c \in env.chunks /\ c # NoContent /\ c.id \in ObjectIds
  BY <1>2, <1>3 DEF WriterPCs
<1>5. Continues
  BY <1>2, <1>3 DEF Continues, Moves, Unrenamed, Failed, WriterPCs
<1>6. /\ WritersApart' /\ BeforeOver' /\ FilesWritten' /\ UnrenamedInvisible'
      /\ \A id : Sequential(id)' <=> Sequential(id)
  BY <1>5, WriteInvContinues
\* What replaces a file is under way, so it was over before no other write.
<1>7. ASSUME NEW d \in Chunks, ssd[d.id] # NoContent, ssd[d.id] \notin before[d]
      PROVE  ssd'[d.id] # NoContent /\ ssd'[d.id] \notin before'[d]
  <2>1. CASE ssd'[d.id] = ssd[d.id]
    BY <1>2, <1>7, <2>1
  <2>2. CASE task[t].pc \in {"rename", "orphan"} /\ ssd'[d.id] = c
    <3>1. Writing(c)
      BY <2>2 DEF Writing, WriterPCs
    <3>2. QED BY <1>1, <1>2, <1>4, <2>2, <3>1 DEF BeforeOver
  <2>3. QED BY <1>2, <1>3, <2>1, <2>2
<1>8. ASSUME pc = "record"
      PROVE  ssd'[c.id] = c /\ c \notin before'[c]
  BY <1>1, <1>2, <1>3, <1>4, <1>8 DEF BeforeOver
<1>9. RecordsFresh'
  <2> SUFFICES ASSUME NEW u \in Tasks, task'[u].pc = "record"
               PROVE  /\ ssd'[task'[u].chunk.id] # NoContent
                      /\ ssd'[task'[u].chunk.id] \notin before'[task'[u].chunk]
    BY DEF RecordsFresh
  <2>1. CASE u = t
    BY <1>2, <1>4, <1>8, <2>1 DEF Moves
  <2>2. CASE u # t
    <3>1. task'[u] = task[u] /\ task[u].chunk \in Chunks
      BY <1>2, <1>3, <2>2 DEF Moves
    <3>2. ssd[task[u].chunk.id] # NoContent /\ ssd[task[u].chunk.id] \notin before[task[u].chunk]
      BY <1>1, <3>1 DEF RecordsFresh
    <3>3. QED BY <1>7, <3>1, <3>2
  <2>3. QED BY <2>1, <2>2
<1>10. AckedOnSsd'
  <2> SUFFICES ASSUME HasSsd, NEW d \in acked'
               PROVE  ssd'[d.id] # NoContent /\ ssd'[d.id].id = d.id /\ ssd'[d.id] \notin before'[d]
    BY DEF AckedOnSsd
  <2>1. d \in Chunks /\ d.id \in ObjectIds
    BY <1>3, <1>4
  <2>2. ssd[d.id] # NoContent /\ ssd[d.id] \notin before[d]
    BY <1>1, <1>2 DEF AckedOnSsd, RecordsFresh
  <2>3. ssd'[d.id] # NoContent /\ ssd'[d.id] \notin before'[d]
    BY <1>7, <2>1, <2>2
  <2>4. QED BY <2>1, <2>3 DEF BaseInv, FilesSound
<1>11. FailedApart'
  <2> SUFFICES ASSUME NEW v \in Tasks, NEW u \in Tasks, Failed(v)', task'[u].pc \in WriterPCs
               PROVE  task'[u].chunk # task'[v].chunk
    BY DEF FailedApart
  <2>1. u # v /\ task[u].pc \in WriterPCs /\ task'[u].chunk = task[u].chunk /\ task'[v].chunk = task[v].chunk
    BY <1>5 DEF Failed, Continues, WriterPCs
  <2>2. CASE v = t
    <3>1. task[t].pc \in WriterPCs
      BY <1>2, <2>2 DEF Failed, Moves
    <3>2. QED BY <1>1, <2>1, <2>2, <3>1 DEF WritersApart
  <2>3. CASE v # t
    <3>1. Failed(v)
      BY <1>2, <2>3 DEF Failed, Moves
    <3>2. QED BY <1>1, <2>1, <3>1 DEF FailedApart
  <2>4. QED BY <2>2, <2>3
<1>12. RecordedInPlace'
  <2> SUFFICES ASSUME NEW u \in Tasks, task'[u].pc = "record", Sequential(task'[u].chunk.id)
               PROVE  ssd'[task'[u].chunk.id] = task'[u].chunk
    BY <1>6 DEF RecordedInPlace
  <2>1. CASE u = t
    BY <1>2, <1>8, <2>1 DEF Moves
  <2>2. CASE u # t
    <3> DEFINE d == task[u].chunk
    <3>1. /\ task'[u] = task[u] /\ task[u].pc = "record" /\ d \in Chunks /\ d \in env.chunks
          /\ d.id \in ObjectIds /\ Sequential(d.id)
      BY <1>2, <1>3, <2>2 DEF Moves
    <3>2. ssd[d.id] = d
      BY <1>1, <3>1 DEF RecordedInPlace
    <3>3. CASE task[t].pc \in {"rename", "orphan"} /\ c.id = d.id
      <4>1. c # d
        BY <1>1, <2>2, <3>1, <3>3 DEF WritersApart, WriterPCs
      <4>2. Written(c) /\ Written(d) /\ Writing(c) /\ Writing(d)
        BY <1>3, <3>1, <3>3 DEF Written, Writing, WriterPCs
      <4>3. c \in before[d] \/ d \in before[c]
        BY <1>4, <3>1, <3>3, <4>1, <4>2 DEF Sequential
      <4>4. QED BY <1>1, <1>4, <3>1, <4>2, <4>3 DEF BeforeOver
    <3>4. CASE ~(task[t].pc \in {"rename", "orphan"} /\ c.id = d.id)
      BY <1>2, <1>3, <1>4, <3>1, <3>2, <3>4
    <3>5. QED BY <3>3, <3>4
  <2>3. QED BY <2>1, <2>2
<1>13. CountedRight'
  <2> SUFFICES ASSUME crashes' = 0, drops' = 0, NEW id \in ObjectIds, Sequential(id),
                      \A u \in Tasks : task'[u].pc = "record" => task'[u].chunk.id # id
               PROVE  ssdObjects'[id] = IF ssd'[id] = NoContent THEN 0 ELSE ssd'[id].len
    BY <1>6 DEF CountedRight, Counted
  <2>1. CASE pc = "ok" /\ id = c.id
    <3>1. ssd'[id] = c
      BY <1>1, <1>2, <2>1 DEF RecordedInPlace
    <3>2. QED BY <1>3, <1>4, <2>1, <3>1
  <2>2. CASE ~(pc = "ok" /\ id = c.id)
    <3>1. ssd'[id] = ssd[id]
      <4>1. task[t].pc # "orphan"
        BY <1>1 DEF OrphansDropped
      <4>2. CASE ssd' = ssd
        BY <4>2
      <4>3. CASE task[t].pc = "rename" /\ pc = "record" /\ ssd' = [ssd EXCEPT ![c.id] = c]
        BY <1>2, <1>3, <4>3 DEF Moves
      <4>4. QED BY <1>2, <4>1, <4>2, <4>3
    <3>2. \A u \in Tasks : task[u].pc = "record" => task[u].chunk.id # id
      BY <1>2, <2>2 DEF Moves
    <3>3. ssdObjects'[id] = ssdObjects[id]
      BY <1>3, <2>2
    <3>4. QED BY <1>1, <3>1, <3>2, <3>3 DEF CountedRight, Counted
  <2>3. QED BY <2>1, <2>2
<1>14. OrphansDropped'
  BY <1>1, <1>2 DEF OrphansDropped, Moves
<1>15. QED
  BY <1>6, <1>9, <1>10, <1>11, <1>12, <1>13, <1>14 DEF WriteInv

\* A write that arrives: nothing of its chunk is written yet, so nothing of it is in
\* a file, and what is over now is another write.
LEMMA WriteInvBegin ==
  ASSUME BaseInv, WriteInv, NEW t \in Tasks, NEW c \in env.chunks, BeginWrite(t, c)
  PROVE  WriteInv'
<1>1. /\ WritersApart /\ BeforeOver /\ FilesWritten /\ RecordsFresh /\ AckedOnSsd /\ UnrenamedInvisible
      /\ FailedApart /\ RecordedInPlace /\ CountedRight /\ OrphansDropped
  BY DEF WriteInv
<1>2. /\ Moves(t, IF HasSsd THEN "persist" ELSE "ok", c, c)
      /\ task[t].pc = "idle" /\ task[t].chunk = NoContent /\ c \notin acked /\ ~Written(c)
      /\ env' = env /\ ssd' = ssd /\ ssdObjects' = ssdObjects /\ crashes' = crashes /\ drops' = drops
      /\ acked' = IF HasSsd THEN acked ELSE acked \cup {c}
      /\ before' = [before EXCEPT ![c] = {d \in env.chunks : d.id = c.id /\ Written(d) /\ ~Writing(d)}]
  <2>1. Moves(t, IF HasSsd THEN "persist" ELSE "ok", c, c)
    BY BaseBeginWrite
  <2>2. QED BY <2>1 DEF BeginWrite, Arrives, Idle
<1>3. /\ c \in Chunks /\ c # NoContent /\ before \in [Chunks -> SUBSET Chunks] /\ env.chunks \subseteq Chunks
      /\ ssd \in [ObjectIds -> Chunks \cup {NoContent}] /\ acked \subseteq Chunks
      /\ \A u \in Tasks : task[u].pc \in WriterPCs => /\ task[u].data = task[u].chunk
                                                      /\ task[u].chunk \in Chunks
      /\ \A u \in Tasks : Failed(u) => task[u].data = task[u].chunk
      /\ \A d \in Chunks : d.id \in ObjectIds /\ d # NoContent
  BY EnvChunks, ChunkFacts DEF BaseInv, TypeOK, HandlersSound, SoundState, WriterPCs, Failed
<1>4. \A u \in Tasks : task[u].pc \in WriterPCs \/ Failed(u) => task[u].chunk # c
  BY <1>2, <1>3 DEF Written
<1>5. /\ \A u \in Tasks \ {t} : task'[u] = task[u]
      /\ task'[t].pc \in {"persist", "ok"} /\ task'[t].chunk = c /\ task'[t].data = c
  BY <1>2 DEF Moves
<1>6. \A d \in Chunks : Written(d)' <=> Written(d) \/ d = c
  BY <1>2, <1>3, <1>5 DEF Written
<1>7. \A d : Writing(d)' => Writing(d) \/ d = c
  BY <1>5 DEF Writing
<1>8. \A d \in Chunks : d # c => before'[d] = before[d]
  BY <1>2, <1>3
<1>9. before'[c] = {d \in env.chunks : d.id = c.id /\ Written(d) /\ ~Writing(d)}
  BY <1>2, <1>3
<1>10. WritersApart'
  BY <1>1, <1>4, <1>5 DEF WritersApart, WriterPCs
<1>11. BeforeOver'
  <2> SUFFICES ASSUME NEW x \in Chunks, NEW d \in Chunks, d \in before'[x]
               PROVE  d # x /\ Written(d)' /\ ~Writing(d)'
    BY DEF BeforeOver
  <2>1. Written(d) /\ ~Writing(d) /\ (x # c => d # x)
    BY <1>1, <1>8, <1>9 DEF BeforeOver
  <2>2. d # c
    BY <1>2, <2>1
  <2>3. QED BY <1>6, <1>7, <2>1, <2>2
<1>12. FilesWritten'
  <2>1. ASSUME NEW id \in ObjectIds, ssd'[id] # NoContent
        PROVE  Written(ssd[id])'
    <3>1. ssd[id] \in Chunks /\ Written(ssd[id])
      BY <1>1, <1>2, <1>3, <2>1 DEF FilesWritten
    <3>2. QED BY <1>2, <1>6, <3>1 DEF Written
  <2>2. ASSUME NEW u \in Tasks, task'[u].pc = "fill"
        PROVE  Written(task[u].data)'
    <3>1. u # t /\ task'[u] = task[u]
      BY <1>5, <2>2
    <3>2. task[u].data \in Chunks /\ Written(task[u].data)
      BY <1>1, <1>3, <2>2, <3>1 DEF FilesWritten, BaseInv, HandlersSound, SoundState
    <3>3. QED BY <1>6, <3>1, <3>2 DEF Written
  <2>3. QED BY <2>1, <2>2 DEF FilesWritten
<1>13. RecordsFresh'
  <2> SUFFICES ASSUME NEW u \in Tasks, task'[u].pc = "record"
               PROVE  /\ ssd'[task'[u].chunk.id] # NoContent
                      /\ ssd'[task'[u].chunk.id] \notin before'[task'[u].chunk]
    BY DEF RecordsFresh
  <2>1. task'[u] = task[u] /\ task[u].chunk \in Chunks /\ task[u].chunk # c
    BY <1>3, <1>4, <1>5 DEF WriterPCs
  <2>2. QED BY <1>1, <1>2, <1>8, <2>1 DEF RecordsFresh
<1>14. AckedOnSsd'
  BY <1>1, <1>2, <1>3, <1>8 DEF AckedOnSsd
\* Nothing that is not written is in a file.
<1>15. /\ \A id \in ObjectIds : ssd[id] # c
       /\ \A u \in Tasks : task[u].pc = "fill" => task[u].data # c
  BY <1>1, <1>2, <1>3 DEF FilesWritten
<1>16. UnrenamedInvisible'
  <2> SUFFICES ASSUME NEW u \in Tasks, Unrenamed(u)'
               PROVE  /\ ssd'[task'[u].chunk.id] # task'[u].chunk
                      /\ \A v \in Tasks : task'[v].pc = "fill" => task'[v].data # task'[u].chunk
    BY DEF UnrenamedInvisible
  <2>1. CASE u = t
    BY <1>2, <1>3, <1>5, <1>15, <2>1
  <2>2. CASE u # t
    <3>1. task'[u] = task[u] /\ Unrenamed(u)
      BY <1>5, <2>2 DEF Unrenamed, Failed
    <3>2. QED BY <1>1, <1>2, <1>5, <3>1 DEF UnrenamedInvisible
  <2>3. QED BY <2>1, <2>2
<1>17. FailedApart'
  <2> SUFFICES ASSUME NEW v \in Tasks, NEW u \in Tasks, Failed(v)', task'[u].pc \in WriterPCs
               PROVE  task'[u].chunk # task'[v].chunk
    BY DEF FailedApart
  <2>1. v # t /\ task'[v] = task[v] /\ Failed(v)
    BY <1>5 DEF Failed
  <2>2. CASE u = t
    BY <1>4, <1>5, <2>1, <2>2
  <2>3. CASE u # t
    BY <1>1, <1>5, <2>1, <2>3 DEF FailedApart
  <2>4. QED BY <2>2, <2>3
<1>18. ASSUME NEW id, Sequential(id)'
       PROVE  Sequential(id)
  <2> SUFFICES ASSUME NEW x \in env.chunks, NEW y \in env.chunks, x.id = id, y.id = id, Written(x), Written(y)
               PROVE  x = y \/ x \in before[y] \/ y \in before[x]
    BY DEF Sequential
  <2>1. x \in Chunks /\ y \in Chunks /\ x # c /\ y # c
    BY <1>2, <1>3
  <2>2. Written(x)' /\ Written(y)'
    BY <1>6, <2>1
  <2>3. x = y \/ x \in before'[y] \/ y \in before'[x]
    BY <1>2, <1>18, <2>2 DEF Sequential
  <2>4. QED BY <1>8, <2>1, <2>3
<1>19. RecordedInPlace'
  BY <1>1, <1>2, <1>5, <1>18 DEF RecordedInPlace
<1>20. CountedRight'
  <2> SUFFICES ASSUME crashes' = 0, drops' = 0, NEW id \in ObjectIds, Sequential(id)',
                      \A u \in Tasks : task'[u].pc = "record" => task'[u].chunk.id # id
               PROVE  Counted(id)'
    BY DEF CountedRight
  <2>1. \A u \in Tasks : task[u].pc = "record" => task[u].chunk.id # id
    BY <1>2, <1>5
  <2>2. Counted(id)
    BY <1>1, <1>2, <1>18, <2>1 DEF CountedRight
  <2>3. QED BY <1>2, <2>2 DEF Counted
<1>21. OrphansDropped'
  BY <1>1, <1>2, <1>5 DEF OrphansDropped
<1>22. QED
  BY <1>10, <1>11, <1>12, <1>13, <1>14, <1>16, <1>17, <1>19, <1>20, <1>21 DEF WriteInv

\* A crash ends every handler and every rename that is under way, and touches no
\* file.
LEMMA WriteInvCrash ==
  ASSUME BaseInv, WriteInv, Crash
  PROVE  WriteInv'
<1>1. /\ WritersApart /\ BeforeOver /\ FilesWritten /\ RecordsFresh /\ AckedOnSsd /\ UnrenamedInvisible
      /\ FailedApart /\ RecordedInPlace /\ CountedRight /\ OrphansDropped
  BY DEF WriteInv
<1>2. /\ \A u \in Tasks : /\ task'[u].chunk = task[u].chunk /\ task'[u].data = task[u].data
                          /\ \/ task'[u].pc = "gone"
                             \/ task'[u].pc = task[u].pc /\ task[u].pc \in {"idle", "ok", "error", "gone"}
      /\ env' = env /\ before' = before /\ ssd' = ssd /\ acked' = acked
  BY DEF Crash, BaseInv, TypeOK, PCs, WriterPCs
<1>3. crashes' # 0
  BY EnvironmentAssumption DEF Crash, BaseInv, TypeOK
<1>4. Continues
  BY <1>2 DEF Continues, Unrenamed, Failed, WriterPCs
<1>5. WritersApart' /\ BeforeOver' /\ FilesWritten' /\ UnrenamedInvisible'
  BY <1>4, WriteInvContinues
<1>6. /\ RecordsFresh' /\ FailedApart' /\ RecordedInPlace' /\ OrphansDropped'
  BY <1>2 DEF RecordsFresh, FailedApart, RecordedInPlace, OrphansDropped, WriterPCs
<1>7. AckedOnSsd' /\ CountedRight'
  BY <1>1, <1>2, <1>3 DEF AckedOnSsd, CountedRight
<1>8. QED BY <1>5, <1>6, <1>7 DEF WriteInv

\* The invariant of writes.
LEMMA WriteInvariant == Spec => [](BaseInv /\ WriteInv)
<1>1. Init => WriteInv
  <2> SUFFICES ASSUME Init
               PROVE  WriteInv
    OBVIOUS
  <2>1. /\ \A t \in Tasks : task[t].pc = "idle"
        /\ acked = {} /\ \A c \in Chunks : before[c] = {}
        /\ \A id \in ObjectIds : ssd[id] = NoContent /\ ssdObjects[id] = 0
    BY DEF Init, Idle
  <2>2. /\ WritersApart /\ BeforeOver /\ FilesWritten /\ RecordsFresh /\ AckedOnSsd
    BY <2>1 DEF WritersApart, BeforeOver, FilesWritten, RecordsFresh, AckedOnSsd, WriterPCs
  <2>3. UnrenamedInvisible /\ FailedApart /\ RecordedInPlace /\ CountedRight /\ OrphansDropped
    BY <2>1 DEF UnrenamedInvisible, Unrenamed, Failed, FailedApart, RecordedInPlace, CountedRight,
       Counted, OrphansDropped
  <2>4. QED BY <2>2, <2>3 DEF WriteInv
<1>2. BaseInv /\ BaseInv' /\ WriteInv /\ [Next]_vars => WriteInv'
  <2> SUFFICES ASSUME BaseInv, BaseInv', WriteInv, [Next]_vars
               PROVE  WriteInv'
    OBVIOUS
  <2>1. ASSUME NEW t \in Tasks,
               \/ PersistTemp(t) \/ PersistFails(t) \/ RemoveTemp(t) \/ PersistRename(t) \/ RecordSsdObject(t)
               \/ OrphanRename(t)
        PROVE  WriteInv'
    <3>1. PICK pc : MovesOn(t, pc)
      BY <2>1, BaseWriters
    <3>2. /\ crashes' = crashes /\ drops' = drops /\ task \in [Tasks -> TaskStates] /\ task'[t].pc = pc
      BY <2>1, <3>1 DEF PersistTemp, PersistFails, RemoveTemp, PersistRename, RecordSsdObject, OrphanRename,
           BaseInv, TypeOK, TaskStates, MovesOn, Moves
    <3>3. IF pc = "ok"
          THEN acked' = acked \cup {task[t].chunk} /\
               ssdObjects' = [ssdObjects EXCEPT ![task[t].chunk.id] = task[t].chunk.len]
          ELSE acked' = acked /\ ssdObjects' = ssdObjects
      <4>1. CASE RecordSsdObject(t)
        BY <3>2, <4>1 DEF RecordSsdObject, TaskStates
      <4>2. CASE ~RecordSsdObject(t)
        <5>1. task[t].pc # "record"
          BY <2>1, <4>2 DEF PersistTemp, PersistFails, RemoveTemp, PersistRename, OrphanRename
        <5>2. QED BY <2>1, <3>1, <4>2, <5>1
                  DEF PersistTemp, PersistFails, RemoveTemp, PersistRename, OrphanRename, MovesOn
      <4>3. QED BY <4>1, <4>2
    <3>4. pc # "orphan"
      BY <2>1, <3>2 DEF PersistTemp, PersistFails, RemoveTemp, PersistRename, RecordSsdObject, OrphanRename,
           TaskStates
    <3>5. QED BY <3>1, <3>2, <3>3, <3>4, WriteInvWriters
  <2>2. ASSUME NEW t \in Tasks, Drop(t)
        PROVE  WriteInv'
    <3>1. PICK pc : MovesOn(t, pc)
      BY <2>2, BaseDrop
    <3>2. pc # "ok"
      BY <2>2, <3>1 DEF Drop, MovesOn
    <3>3. drops' # 0 /\ acked' = acked /\ ssdObjects' = ssdObjects /\ crashes' = crashes
      BY <2>2, BaseDrop DEF Drop
    <3>4. QED BY <3>1, <3>2, <3>3, WriteInvWriters
  <2>3. ASSUME NEW t \in Tasks, (\E c \in env.chunks : ReadDram(t, c)) \/ ReadSsd(t) \/ FillDram(t)
        PROVE  WriteInv'
    BY <2>3, ReadersRead, WriteInvReaders
  <2>4. CASE (\E len, dataLen \in env.direct : AllocateAndWrite(len, dataLen)) \/ UNCHANGED vars
    <3>1. /\ env' = env /\ before' = before /\ ssd' = ssd /\ acked' = acked /\ task' = task
          /\ ssdObjects' = ssdObjects /\ crashes' = crashes /\ drops' = drops
      BY <2>4 DEF AllocateAndWrite, vars
    <3>2. QED
      BY <3>1 DEF WriteInv, WritersApart, BeforeOver, FilesWritten, RecordsFresh, AckedOnSsd,
         UnrenamedInvisible, Unrenamed, Failed, FailedApart, RecordedInPlace, CountedRight, Counted,
         OrphansDropped, Written, Writing, Sequential
  <2>5. QED BY <2>1, <2>2, <2>3, <2>4, WriteInvBegin, WriteInvCrash DEF Next
<1>3. QED BY <1>1, <1>2, BaseInvariant, PTL DEF Spec

\* An answered write is on the SSD, or another one of its object that was not over
\* before it, through crashes, failed and dropped handlers and overlapping writers:
\* AckedOnSsd.
THEOREM AcksAreDurable == Spec => []AckedOnSsd
<1>1. WriteInv => AckedOnSsd
  BY DEF WriteInv
<1>2. QED BY <1>1, WriteInvariant, PTL

\* A write answered with an error is never seen in a file or in a promotion, whatever
\* of it had been done and whether or not its temporary file could be removed:
\* FailedWriteInvisible.
THEOREM FailedWritesStayInvisible == Spec => []FailedWriteInvisible
<1>1. WriteInv => FailedWriteInvisible
  BY DEF WriteInv, UnrenamedInvisible, Unrenamed, FailedWriteInvisible
<1>2. QED BY <1>1, WriteInvariant, PTL

\* With neither crash nor drop, the node counts what its files hold, for objects no
\* two writes of which overlapped, whenever no handler is between a rename and its
\* count: SsdAccounting.
THEOREM SsdBytesCounted == Spec => []SsdAccounting
<1>1. WriteInv => SsdAccounting
  BY DEF WriteInv, CountedRight, Counted, SsdAccounting
<1>2. QED BY <1>1, WriteInvariant, PTL

-----------------------------------------------------------------------------
(* With one Master. *)

\* Readers of a chunk nobody asked for too early ask for an answered write; what
\* they found is of its object, and was not over before it began.
FreshFor(c, x) == x \in env.chunks /\ x.id = c.id /\ (c \in early \/ x \notin before[c])

ReadersFresh ==
  \A t \in Tasks :
    /\ task[t].pc \in {"promote", "fill", "ok"} => task[t].chunk \in acked \cup early
    /\ task[t].pc \in {"fill", "ok"} => FreshFor(task[t].chunk, task[t].data)

\* The place of a reservation is not allocated, or it holds such a write.
PlaceSound(c) ==
  \/ dram.allocations[c.offset].len = 0
  \/ \E x \in env.chunks : FreshFor(c, x) /\ Holds(dram, c.offset, c.len, x)

PlacesSound == \A c \in env.chunks : PlaceSound(c)

OneMasterInv == env.oneMaster => ReadersFresh /\ PlacesSound

\* What one Master hands out.
LEMMA OneMasterFacts ==
  ASSUME BaseInv, env.oneMaster
  PROVE  /\ env.direct = {}
         /\ env.chunks \subseteq Chunks
         /\ \A c, d \in env.chunks : c # d => Apart(c.offset, c.len, d.offset, d.len)
BY OneMasterAssumption, EnvChunks DEF BaseInv, TypeOK, Apart

\* A write of one chunk leaves the places of the others as they are, and its own
\* place sound when what is written is fresh for it.
LEMMA PlacesAfterWrite ==
  ASSUME BaseInv, env.oneMaster, PlacesSound, NEW c \in env.chunks, NEW x \in env.chunks,
         FreshFor(c, x)', env' = env, early' = early, \A d \in env.chunks : d # c => before'[d] = before[d],
         WritePreallocatedOk(c.offset, c.len, x) \/ before' = before,
         dram' = WritePreallocated(dram, c.offset, c.len, x)
  PROVE  PlacesSound'
<1>1. dram \in Drams(Contents) /\ env.chunks \subseteq Chunks
  BY OneMasterFacts DEF BaseInv, TypeOK
<1>2. x \in Contents /\ c.offset \in Nat /\ c.len \in Nat
  BY <1>1, ChunkFacts
<1> SUFFICES ASSUME NEW d \in env.chunks
             PROVE  PlaceSound(d)'
  BY DEF PlacesSound
<1>3. d.offset \in Nat /\ d.len \in Nat \ {0} /\ d.offset + d.len <= ArenaSize
  BY <1>1, ChunkFacts
<1>4. CASE d = c /\ WritePreallocatedOk(c.offset, c.len, x)
  <2>1. Holds(dram', c.offset, c.len, x)
    BY <1>1, <1>2, <1>4, WritePreallocatedHolds
  <2>2. QED BY <1>4, <2>1 DEF PlaceSound
<1>5. CASE ~WritePreallocatedOk(c.offset, c.len, x)
  <2>1. dram' = dram /\ before' = before
    BY <1>5 DEF WritePreallocated
  <2>2. QED BY <2>1 DEF PlacesSound, PlaceSound, FreshFor
<1>6. CASE d # c
  <2>1. Apart(c.offset, c.len, d.offset, d.len)
    BY <1>6, OneMasterFacts
  <2>2. /\ dram'.allocations[d.offset] = dram.allocations[d.offset]
        /\ \A o \in Span(d.offset, d.len) : dram'.arena[o] = dram.arena[o]
    BY <1>1, <1>2, <1>3, <2>1, WritePreallocatedElsewhere
  <2>3. \A y : Holds(dram, d.offset, d.len, y) => Holds(dram', d.offset, d.len, y)
    BY <2>2 DEF Holds
  <2>4. PlaceSound(d)
    BY DEF PlacesSound
  <2>5. CASE dram.allocations[d.offset].len = 0
    BY <2>2, <2>5 DEF PlaceSound
  <2>6. CASE \E y \in env.chunks : FreshFor(d, y) /\ Holds(dram, d.offset, d.len, y)
    <3>1. PICK y \in env.chunks : FreshFor(d, y) /\ Holds(dram, d.offset, d.len, y)
      BY <2>6
    <3>2. FreshFor(d, y)'
      BY <1>6, <3>1 DEF FreshFor
    <3>3. QED BY <2>3, <3>1, <3>2 DEF PlaceSound
  <2>7. QED BY <2>4, <2>5, <2>6 DEF PlaceSound
<1>7. QED BY <1>4, <1>5, <1>6

\* A write that arrives.
LEMMA OneMasterBegin ==
  ASSUME BaseInv, WriteInv, WriteInv', OneMasterInv, NEW t \in Tasks, NEW c \in env.chunks, BeginWrite(t, c)
  PROVE  OneMasterInv'
<1> SUFFICES ASSUME env.oneMaster
             PROVE  OneMasterInv'
  BY DEF OneMasterInv, BeginWrite
<1>1. ReadersFresh /\ PlacesSound
  BY DEF OneMasterInv
<1>2. Moves(t, IF HasSsd THEN "persist" ELSE "ok", c, c)
  BY BaseBeginWrite
<1>3. /\ c \in Chunks /\ env.chunks \subseteq Chunks /\ before \in [Chunks -> SUBSET Chunks]
  BY EnvChunks DEF BaseInv, TypeOK
<1>4. /\ env' = env /\ early' = early /\ acked \subseteq acked' /\ c \notin acked
      /\ ~HasSsd => c \in acked'
      /\ \A d \in Chunks : d # c => before'[d] = before[d]
      /\ dram' = WritePreallocated(dram, c.offset, c.len, c)
  BY <1>3 DEF BeginWrite
<1>5. FreshFor(c, c)'
  BY <1>3, <1>4 DEF FreshFor, WriteInv, BeforeOver
<1>6. WritePreallocatedOk(c.offset, c.len, c)
  BY <1>3, ChunkFacts DEF WritePreallocatedOk
<1>7. PlacesSound'
  BY <1>1, <1>3, <1>4, <1>5, <1>6, PlacesAfterWrite
<1>8. ReadersFresh'
  <2> SUFFICES ASSUME NEW u \in Tasks
               PROVE  /\ task'[u].pc \in {"promote", "fill", "ok"} => task'[u].chunk \in acked' \cup early'
                      /\ task'[u].pc \in {"fill", "ok"} => FreshFor(task[u].chunk, task[u].data)'
    BY DEF ReadersFresh
  <2>1. CASE u = t
    <3>1. task'[u].chunk = c /\ task'[u].data = c /\ task'[u].pc = IF HasSsd THEN "persist" ELSE "ok"
      BY <1>2, <2>1 DEF Moves
    <3>2. QED BY <1>4, <1>5, <3>1 DEF FreshFor
  <2>2. CASE u # t
    <3>1. task'[u] = task[u]
      BY <1>2, <2>2 DEF Moves
    <3>2. task[u].pc \in {"fill", "ok"} => task[u].chunk \in Chunks
      BY EnvChunks DEF BaseInv, TypeOK, HandlersSound, SoundState
    <3>3. QED BY <1>1, <1>4, <3>1, <3>2 DEF ReadersFresh, FreshFor
  <2>3. QED BY <2>1, <2>2
<1>9. QED BY <1>7, <1>8 DEF OneMasterInv

\* A writer's step, a drop and a crash: no reader learns anything.
LEMMA OneMasterContinues ==
  ASSUME BaseInv, OneMasterInv, env' = env, before' = before, early' = early, acked \subseteq acked',
         \A u \in Tasks : /\ task'[u].chunk = task[u].chunk /\ task'[u].data = task[u].data
                          /\ \/ task'[u].pc \notin {"promote", "fill", "ok"}
                             \/ task'[u].pc = task[u].pc
                             \/ task[u].pc \in WriterPCs /\ task[u].chunk \in acked',
         \A c \in Chunks : c \notin before[c],
         dram' = dram \/ \A c \in env.chunks : dram'.allocations[c.offset].len = 0
  PROVE  OneMasterInv'
<1> SUFFICES ASSUME env.oneMaster
             PROVE  OneMasterInv'
  BY DEF OneMasterInv
<1>1. ReadersFresh /\ PlacesSound
  BY DEF OneMasterInv
<1>2. PlacesSound'
  <2>1. CASE dram' = dram
    BY <1>1, <2>1 DEF PlacesSound, PlaceSound, FreshFor
  <2>2. CASE \A c \in env.chunks : dram'.allocations[c.offset].len = 0
    BY <2>2 DEF PlacesSound, PlaceSound
  <2>3. QED BY <2>1, <2>2
<1>3. ASSUME NEW u \in Tasks
      PROVE  /\ task'[u].pc \in {"promote", "fill", "ok"} => task'[u].chunk \in acked' \cup early'
             /\ task'[u].pc \in {"fill", "ok"} => FreshFor(task[u].chunk, task[u].data)'
  <2>1. CASE task'[u].pc = task[u].pc
    BY <1>1, <2>1 DEF ReadersFresh, FreshFor
  <2>2. CASE task[u].pc \in WriterPCs /\ task[u].chunk \in acked'
    <3>1. task[u].data = task[u].chunk /\ task[u].chunk \in env.chunks /\ task[u].chunk \in Chunks
      BY <2>2, EnvChunks DEF BaseInv, TypeOK, HandlersSound, SoundState, WriterPCs
    <3>2. QED BY <2>2, <3>1 DEF FreshFor
  <2>3. QED BY <2>1, <2>2
<1>4. QED BY <1>2, <1>3 DEF OneMasterInv, ReadersFresh

\* A reader's step, once its new state is known to be fresh.
LEMMA OneMasterReaders ==
  ASSUME BaseInv, OneMasterInv, env.oneMaster, NEW t \in Tasks, NEW pc, NEW chunk, NEW data,
         Moves(t, pc, chunk, data), pc \in {"promote", "fill", "ok", "error"},
         pc # "error" => chunk \in acked \cup early',
         pc \in {"fill", "ok"} => data \in env.chunks /\ data.id = chunk.id
                                  /\ (chunk \in early' \/ data \notin before[chunk]),
         PlacesSound', env' = env, acked' = acked, before' = before, early \subseteq early'
  PROVE  OneMasterInv'
<1>1. ReadersFresh
  BY DEF OneMasterInv
<1>2. ASSUME NEW u \in Tasks
      PROVE  /\ task'[u].pc \in {"promote", "fill", "ok"} => task'[u].chunk \in acked' \cup early'
             /\ task'[u].pc \in {"fill", "ok"} => FreshFor(task[u].chunk, task[u].data)'
  <2>1. CASE u = t
    BY <2>1 DEF Moves, FreshFor
  <2>2. CASE u # t
    BY <1>1, <2>2 DEF Moves, ReadersFresh, FreshFor
  <2>3. QED BY <2>1, <2>2
<1>3. QED BY <1>2 DEF OneMasterInv, ReadersFresh

\* Reads.
LEMMA OneMasterReads ==
  ASSUME BaseInv, WriteInv, OneMasterInv, NEW t \in Tasks,
         (\E c \in env.chunks : ReadDram(t, c)) \/ ReadSsd(t) \/ FillDram(t)
  PROVE  OneMasterInv'
<1>1. env' = env /\ acked' = acked /\ before' = before /\ early \subseteq early'
  BY DEF ReadDram, ReadSsd, FillDram
<1> SUFFICES ASSUME env.oneMaster
             PROVE  OneMasterInv'
  BY <1>1 DEF OneMasterInv
<1>2. ReadersFresh /\ PlacesSound /\ AckedOnSsd
  BY DEF OneMasterInv, WriteInv
<1>3. /\ env.chunks \subseteq Chunks
      /\ dram \in Drams(Contents) /\ Sealed(dram)
      /\ \A d \in env.chunks : /\ d # NoContent /\ d \in Contents
                               /\ d.offset \in Nat /\ d.len \in Nat \ {0} /\ d.offset + d.len <= ArenaSize
  BY OneMasterFacts, ChunkFacts DEF BaseInv, TypeOK
<1>4. ASSUME dram' = dram
      PROVE  PlacesSound'
  BY <1>1, <1>2, <1>4 DEF PlacesSound, PlaceSound, FreshFor
<1>5. ASSUME NEW c \in env.chunks, ReadDram(t, c)
      PROVE  OneMasterInv'
  <2>1. c \in acked \cup early' /\ PlacesSound'
    BY <1>4, <1>5 DEF ReadDram
  <2>2. CASE /\ ReadOutcome(dram, c.offset, c.len) = "Ok"
             /\ Moves(t, "ok", c, ReadContent(dram, c.offset, c.len))
    <3>1. dram.allocations[c.offset].len # 0
      BY <1>3, <2>2 DEF ReadOutcome, ValidHandle
    <3>2. PICK x \in env.chunks : FreshFor(c, x) /\ Holds(dram, c.offset, c.len, x)
      BY <1>2, <3>1 DEF PlacesSound, PlaceSound
    <3>3. ReadContent(dram, c.offset, c.len) = x
      BY <1>3, <3>2, ContentsProper, ReadHolds
    <3>4. Moves(t, "ok", c, x)
      BY <2>2, <3>3
    <3>5. x.id = c.id /\ (c \in early' \/ x \notin before[c])
      BY <1>1, <3>2 DEF FreshFor
    <3>6. QED BY <1>1, <2>1, <3>4, <3>5, OneMasterReaders
  <2>3. CASE Moves(t, "promote", c, NoContent)
    BY <1>1, <2>1, <2>3, OneMasterReaders
  <2>4. CASE Moves(t, "error", c, NoContent)
    BY <1>1, <2>1, <2>4, OneMasterReaders
  <2>5. QED BY <1>5, <2>2, <2>3, <2>4, BaseReadDram
<1>6. ASSUME ReadSsd(t)
      PROVE  OneMasterInv'
  <2> DEFINE c == task[t].chunk
             data == ssd[c.id]
  <2>1. /\ task[t].pc = "promote" /\ c \in env.chunks
        /\ Moves(t, IF data = NoContent THEN "error" ELSE "fill", c, data)
    BY <1>6, BaseReadSsd
  <2>2. HasSsd /\ c \in acked \cup early
    BY <1>2, <2>1 DEF BaseInv, HandlersSound, SoundState, ReadersFresh
  <2>3. PlacesSound' /\ early' = early
    BY <1>4, <1>6 DEF ReadSsd
  <2>4. CASE data = NoContent
    <3>1. Moves(t, "error", c, NoContent)
      BY <2>1, <2>4
    <3>2. QED BY <1>1, <2>3, <3>1, OneMasterReaders
  <2>5. CASE data # NoContent
    <3>1. Moves(t, "fill", c, data)
      BY <2>1, <2>5
    <3>2. data \in env.chunks /\ data.id = c.id
      BY <1>3, <2>1, <2>5, ChunkFacts DEF BaseInv, FilesSound
    <3>3. c \in early \/ data \notin before[c]
      BY <1>2, <2>2 DEF AckedOnSsd
    <3> HIDE DEF c, data
    <3>4. QED BY <1>1, <2>2, <2>3, <3>1, <3>2, <3>3, OneMasterReaders
  <2>6. QED BY <2>4, <2>5
<1>7. ASSUME FillDram(t)
      PROVE  OneMasterInv'
  <2> DEFINE c == task[t].chunk
             data == task[t].data
  <2>1. /\ task[t].pc = "fill" /\ c \in env.chunks /\ data \in env.chunks
        /\ Moves(t, "ok", c, data) \/ Moves(t, "error", c, NoContent)
    BY <1>7, BaseFillDram
  <2>2. c \in acked \cup early /\ FreshFor(c, data)
    BY <1>2, <2>1 DEF ReadersFresh
  <2>3. early' = early /\ dram' = WritePreallocated(dram, c.offset, c.len, data)
    BY <1>7 DEF FillDram
  <2> HIDE DEF c, data
  <2>4. data.id = c.id /\ (c \in early' \/ data \notin before[c])
    BY <2>2, <2>3 DEF FreshFor
  <2>5. PlacesSound'
    <3>1. ASSUME NEW k \in env.chunks, NEW x \in env.chunks, k = c, x = data
          PROVE  PlacesSound'
      <4>1. FreshFor(k, x)'
        BY <1>1, <2>3, <2>4, <3>1 DEF FreshFor
      <4>2. dram' = WritePreallocated(dram, k.offset, k.len, x)
        BY <2>3, <3>1
      <4>3. QED BY <1>1, <1>2, <2>3, <4>1, <4>2, PlacesAfterWrite
    <3>2. QED BY <2>1, <3>1
  <2>6. QED BY <1>1, <2>1, <2>2, <2>3, <2>4, <2>5, OneMasterReaders
<1>8. QED BY <1>5, <1>6, <1>7

\* The invariant of a node that serves one Master.
LEMMA OneMasterInvariant == Spec => [](BaseInv /\ OneMasterInv)
<1>1. Init => OneMasterInv
  <2> SUFFICES ASSUME Init, env.oneMaster
               PROVE  OneMasterInv
    BY DEF OneMasterInv
  <2>1. \A t \in Tasks : task[t].pc = "idle"
    BY DEF Init, Idle
  <2>2. \A c \in env.chunks : dram.allocations[c.offset].len = 0
    BY EnvChunks, ChunkFacts, ArenaSizeAssumption DEF Init, EmptyDram, NoChunk, Offsets
  <2>3. QED
    BY <2>1, <2>2 DEF OneMasterInv, ReadersFresh, PlacesSound, PlaceSound
<1>2. BaseInv /\ WriteInv /\ WriteInv' /\ OneMasterInv /\ [Next]_vars => OneMasterInv'
  <2> SUFFICES ASSUME BaseInv, WriteInv, WriteInv', OneMasterInv, [Next]_vars
               PROVE  OneMasterInv'
    OBVIOUS
  <2>1. \A c \in Chunks : c \notin before[c]
    BY DEF WriteInv, BeforeOver
  <2>2. ASSUME NEW t \in Tasks, NEW pc, MovesOn(t, pc), acked \subseteq acked',
               pc = "ok" => task[t].chunk \in acked'
        PROVE  OneMasterInv'
    <3>1. /\ Moves(t, pc, task[t].chunk, task[t].data)
          /\ pc \in {"rename", "cleanup", "orphan", "ok", "error", "gone", "record"}
          /\ pc = "ok" => task[t].pc \in WriterPCs
          /\ env' = env /\ dram' = dram /\ before' = before /\ early' = early
      BY <2>2 DEF MovesOn, WriterPCs
    <3>2. \A u \in Tasks : /\ task'[u].chunk = task[u].chunk /\ task'[u].data = task[u].data
                           /\ \/ task'[u].pc \notin {"promote", "fill", "ok"}
                              \/ task'[u].pc = task[u].pc
                              \/ task[u].pc \in WriterPCs /\ task[u].chunk \in acked'
      BY <2>2, <3>1 DEF Moves
    <3>3. QED BY <2>1, <2>2, <3>1, <3>2, OneMasterContinues
  <2>3. ASSUME NEW t \in Tasks,
               \/ PersistTemp(t) \/ PersistFails(t) \/ RemoveTemp(t) \/ PersistRename(t) \/ RecordSsdObject(t)
               \/ OrphanRename(t)
        PROVE  OneMasterInv'
    <3>1. PICK pc : MovesOn(t, pc)
      BY <2>3, BaseWriters
    <3>2. acked \subseteq acked'
      BY <2>3 DEF PersistTemp, PersistFails, RemoveTemp, PersistRename, RecordSsdObject, OrphanRename
    <3>3. pc = "ok" => task[t].chunk \in acked'
      BY <2>3, <3>1
         DEF MovesOn, PersistTemp, PersistFails, RemoveTemp, PersistRename, RecordSsdObject, OrphanRename
    <3>4. QED BY <2>2, <3>1, <3>2, <3>3
  <2>4. ASSUME NEW t \in Tasks, Drop(t)
        PROVE  OneMasterInv'
    <3>1. PICK pc : MovesOn(t, pc)
      BY <2>4, BaseDrop
    <3>2. pc # "ok" /\ acked' = acked
      BY <2>4, <3>1 DEF Drop, MovesOn
    <3>3. QED BY <2>2, <3>1, <3>2
  <2>5. ASSUME NEW len \in env.direct, NEW dataLen \in env.direct, AllocateAndWrite(len, dataLen)
        PROVE  OneMasterInv'
    <3>1. env' = env
      BY <2>5 DEF AllocateAndWrite
    <3>2. ~env.oneMaster
      BY <2>5, OneMasterFacts
    <3>3. QED BY <3>1, <3>2 DEF OneMasterInv
  <2>6. CASE Crash
    <3>1. /\ \A u \in Tasks : /\ task'[u].chunk = task[u].chunk /\ task'[u].data = task[u].data
                              /\ \/ task'[u].pc \notin {"promote", "fill", "ok"}
                                 \/ task'[u].pc = task[u].pc
          /\ env' = env /\ before' = before /\ early' = early /\ acked' = acked
      BY <2>6 DEF Crash, BaseInv, TypeOK, PCs, WriterPCs
    <3>2. \A c \in Chunks : c.offset \in Offsets
      BY ChunkFacts, ArenaSizeAssumption DEF Offsets
    <3>3. \A c \in env.chunks : dram'.allocations[c.offset].len = 0
      BY <2>6, <3>2, EnvChunks DEF Crash, EmptyDram, NoChunk, BaseInv, TypeOK
    <3>4. QED BY <2>1, <3>1, <3>3, OneMasterContinues
  <2>7. CASE UNCHANGED vars
    BY <2>7 DEF vars, OneMasterInv, ReadersFresh, PlacesSound, PlaceSound, FreshFor
  <2>8. QED
    BY <2>3, <2>4, <2>5, <2>6, <2>7, OneMasterBegin, OneMasterReads DEF Next
<1>3. QED BY <1>1, <1>2, WriteInvariant, PTL DEF Spec

\* With one Master, a read returns its chunk's object, from DRAM or from the SSD, and
\* no write that was over before the chunk's own began: ReadsNeverGoBack.
THEOREM ReadsAreFresh == Spec => []ReadsNeverGoBack
<1>1. OneMasterInv => ReadsNeverGoBack
  BY DEF OneMasterInv, ReadersFresh, FreshFor, ReadsNeverGoBack, Ok
<1>2. QED BY <1>1, OneMasterInvariant, PTL

\* With one Master, the place of an answered chunk is empty or holds the object, and
\* no write that was over before the chunk's own began: DramHoldsAcked.
THEOREM DramIsFresh == Spec => []DramHoldsAcked
<1>1. BaseInv /\ OneMasterInv => DramHoldsAcked
  <2> SUFFICES ASSUME BaseInv, OneMasterInv, env.oneMaster, NEW c \in acked
               PROVE  LET held == ReadContent(dram, c.offset, c.len)
                      IN  \/ ReadOutcome(dram, c.offset, c.len) = "InvalidHandle"
                          \/ /\ ReadOutcome(dram, c.offset, c.len) = "Ok"
                             /\ held.id = c.id /\ (c \in early \/ held \notin before[c])
    BY DEF DramHoldsAcked
  <2>1. /\ c \in env.chunks /\ env.chunks \subseteq Chunks /\ PlaceSound(c)
        /\ dram \in Drams(Contents) /\ Sealed(dram)
    BY OneMasterFacts DEF BaseInv, TypeOK, OneMasterInv, PlacesSound
  <2>2. /\ c.offset \in Nat /\ c.len \in Nat \ {0} /\ c.offset + c.len <= ArenaSize
        /\ \A x \in env.chunks : x \in Contents
    BY <2>1, ChunkFacts
  <2>3. CASE dram.allocations[c.offset].len = 0
    BY <2>2, <2>3 DEF ReadOutcome, ValidHandle
  <2>4. ASSUME NEW x \in env.chunks, FreshFor(c, x), Holds(dram, c.offset, c.len, x)
        PROVE  /\ ReadOutcome(dram, c.offset, c.len) = "Ok"
               /\ ReadContent(dram, c.offset, c.len) = x
    BY <2>1, <2>2, <2>4, ContentsProper, ReadHolds
  <2>5. QED BY <2>1, <2>3, <2>4 DEF PlaceSound, FreshFor
<1>2. QED BY <1>1, OneMasterInvariant, PTL

=============================================================================
