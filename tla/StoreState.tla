------------------------------ MODULE StoreState ------------------------------
(***************************************************************************)
(* The DRAM arena of a Store (crates/store/memory.rs, MemoryStore) and its *)
(* operations, as operators from an arena to an arena. Every operation     *)
(* runs under the Store's mutex. Used by StoreNode and by CacheFlow.       *)
(*                                                                         *)
(* A content is what one write puts into a chunk; it is a record with a    *)
(* field len. The byte at position i of content c is [of |-> c, at |-> i], *)
(* so the SHA-256 of a span is the content it holds, when it holds one.    *)
(***************************************************************************)
EXTENDS Integers

CONSTANTS
  ArenaSize,    \* arena.len()
  NoContent     \* no checksum yet, or a byte never written

ASSUME ArenaSizeAssumption == ArenaSize \in Nat \ {0}

Offsets == 0..(ArenaSize - 1)
Span(offset, len) == offset..(offset + len - 1)

\* ChunkMeta; an offset that is not in the allocations map has NoChunk.
NoChunk == [len |-> 0, checksum |-> NoContent]

\* MemoryStore, with contents of a given set.
Bytes(contents) == [of : contents, at : Offsets] \cup {NoContent}
Drams(contents) ==
  [arena : [Offsets -> Bytes(contents)], next : 0..ArenaSize,
   allocations : [Offsets -> [len : 0..ArenaSize, checksum : contents \cup {NoContent}]]]

EmptyDram == [arena |-> [o \in Offsets |-> NoContent], next |-> 0,
              allocations |-> [o \in Offsets |-> NoChunk]]

AllocateOk(d, len) == len > 0 /\ d.next + len <= ArenaSize

Allocate(d, len) ==
  [d EXCEPT !.allocations[d.next] = [len |-> len, checksum |-> NoContent], !.next = @ + len]

ValidHandle(d, offset, len) ==
  /\ offset \in Offsets
  /\ len > 0
  /\ d.allocations[offset].len = len

\* write_chunk on a valid handle; it refuses bytes of another length.
WriteChunkOk(d, offset, len, content) == ValidHandle(d, offset, len) /\ content.len = len

\* Mutant: the checksum is not recorded.
WriteChunk_NoChecksum(d, offset, len, content) ==
  IF WriteChunkOk(d, offset, len, content)
  THEN [d EXCEPT !.arena = [o \in Offsets |-> IF o \in Span(offset, len)
                                               THEN [of |-> content, at |-> o - offset]
                                               ELSE d.arena[o]]]
  ELSE d

WriteChunk(d, offset, len, content) ==
  IF WriteChunkOk(d, offset, len, content)
  THEN [d EXCEPT !.arena = [o \in Offsets |-> IF o \in Span(offset, len)
                                               THEN [of |-> content, at |-> o - offset]
                                               ELSE d.arena[o]],
                 !.allocations[offset].checksum = content]
  ELSE d

\* The caller names the place: only the arena's bounds and the length are checked.
WritePreallocatedOk(offset, len, content) ==
  len > 0 /\ content.len = len /\ offset + len <= ArenaSize

WritePreallocated(d, offset, len, content) ==
  IF WritePreallocatedOk(offset, len, content)
  THEN LET placed == [d EXCEPT
                        !.allocations[offset] = [len |-> len, checksum |-> NoContent],
                        !.next = IF offset + len > @ THEN offset + len ELSE @]
       IN  WriteChunk(placed, offset, len, content)
  ELSE d

\* Mutant: the bytes are returned without comparing their checksum.
ReadOutcome_Unverified(d, offset, len) ==
  IF ~ValidHandle(d, offset, len) THEN "InvalidHandle"
  ELSE IF d.allocations[offset].checksum = NoContent THEN "UnwrittenChunk" ELSE "Ok"

\* The outcome of read_chunk: the bytes are returned if their checksum is right.
ReadOutcome(d, offset, len) ==
  IF ~ValidHandle(d, offset, len) THEN "InvalidHandle"
  ELSE LET sum == d.allocations[offset].checksum
       IN  IF sum = NoContent THEN "UnwrittenChunk"
           ELSE IF \A o \in Span(offset, len) : d.arena[o] = [of |-> sum, at |-> o - offset]
                THEN "Ok"
                ELSE "ChecksumMismatch"

\* The bytes it returns, by name: a content if they are all of one, else NoContent.
ReadContent(d, offset, len) ==
  IF d.arena[offset] = NoContent THEN NoContent
  ELSE LET c == d.arena[offset].of
       IN  IF c.len = len /\ \A o \in Span(offset, len) : d.arena[o] = [of |-> c, at |-> o - offset]
           THEN c ELSE NoContent

=============================================================================
