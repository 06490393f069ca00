-------------------------------- MODULE FCache --------------------------------
(***************************************************************************)
(* The cache in which mime::write collects a request (src/fcache.cpp): a   *)
(* fixed buffer that spills into an unlinked temporary file when it is     *)
(* full, read back through a mapping of the file.  mime::write appends a   *)
(* chunk, asks for the length, asks for the data and hands both to parse   *)
(* (src/mime.cpp); reset() replaces the cache.                             *)
(*                                                                         *)
(* Bytes are numbered in the order in which they arrive.  Memory that was  *)
(* never part of the request is the byte Junk.  write(2) may fail (-1) or  *)
(* be short, and mkstemp may fail.                                         *)
(***************************************************************************)
EXTENDS Integers, Sequences

CONSTANTS
  Cap,        \* sizeof(static_cache): 65536
  MaxChunk,   \* the largest chunk that the connection reads at once
  MaxBytes,   \* bound: bytes of one request
  Fds         \* descriptors that mkstemp may return

ASSUME FCacheAssumption ==
  /\ Cap \in Nat /\ MaxChunk \in Nat /\ MaxBytes \in Nat
  /\ Fds \subseteq Nat

VARIABLES
  arrived,   \* how many bytes of the request mime::write was given
  static,    \* static_cache up to p
  fd,        \* the temporary file, -1 if there is none
  file,      \* what it holds
  mapped,    \* how many bytes memory_mapping shows, -1 if it is null
  mlen,      \* memory_mapping_length
  total,     \* bytes_total in mime::write
  given,     \* the bytes that parse may read: base, base_size
  stage,        \* "idle", "length", "data"
  faults     \* did a system call fail or fall short?

store == <<static, fd, file>>
cacheVars == <<arrived, store, mapped, mlen, total, given, stage, faults>>

Junk == 0

CacheInit ==
  /\ arrived = 0
  /\ static = <<>> /\ fd = -1 /\ file = <<>>
  /\ mapped = -1 /\ mlen = 0
  /\ total = 0 /\ given = <<>>
  /\ stage = "idle"
  /\ faults = FALSE

Chunk(n) == [i \in 1..n |-> arrived + i]

-----------------------------------------------------------------------------
(* fcache::write.                                                          *)

\* Fault: the old mapping stays.
UnmapNot == UNCHANGED <<mapped, mlen>>

\* The mapping goes first, whatever becomes of the data.
Unmap == mapped' = -1 /\ mlen' = IF mapped = -1 THEN mlen ELSE 0

Begin(n) ==
  /\ stage = "idle"
  /\ n <= MaxChunk /\ arrived + n <= MaxBytes
  /\ arrived' = arrived + n
  /\ Unmap
  /\ stage' = "length"
  /\ UNCHANGED <<total, given>>

\* What a write(2) of s leaves in the file f when it returns r.
Written(f, s, r) == IF r = -1 THEN f ELSE f \o SubSeq(s, 1, r)

\* Two tries: data + r, datasize - r is what the first has left, and also what
\* is passed on when r is -1, which then starts one byte before the data.
\* Fault: the retry starts at the beginning.
RestAll(s, r) == IF r = -1 THEN <<Junk>> \o s ELSE s

Rest(s, r) == IF r = -1 THEN <<Junk>> \o s ELSE SubSeq(s, r + 1, Len(s))

WriteTwice(f, s, r1, r2) ==
  IF r1 = Len(s) THEN Written(f, s, r1) ELSE Written(Written(f, s, r1), Rest(s, r1), r2)

WriteStatic(n) ==
  /\ Begin(n)
  /\ fd = -1 /\ Len(static) + n <= Cap
  /\ static' = static \o Chunk(n)
  /\ UNCHANGED <<fd, file, faults>>

\* mkstemp fails: the chunk is dropped, and mime::write does not look.
SpillFails(n) ==
  /\ Begin(n)
  /\ fd = -1 /\ Len(static) + n > Cap
  /\ faults' = TRUE
  /\ UNCHANGED store

\* Fault: the buffer's bytes are not taken along.
SpillEmpty(n) ==
  /\ Begin(n)
  /\ fd = -1 /\ Len(static) + n > Cap
  /\ fd' \in Fds
  /\ file' = Chunk(n)
  /\ UNCHANGED <<static, faults>>

\* The file is made and takes over what static_cache holds; that this may be cut
\* short (to r0) is not looked at either.
Spill(n) ==
  /\ Begin(n)
  /\ fd = -1 /\ Len(static) + n > Cap
  /\ fd' \in Fds
  /\ \E r0 \in -1..Len(static), r1 \in -1..n :
     \E r2 \in -1..(n - r1) :
       /\ file' = WriteTwice(Written(<<>>, static, r0), Chunk(n), r1, r2)
       /\ faults' = (faults \/ r0 # Len(static) \/ r1 # n)
  /\ UNCHANGED static

WriteFile(n) ==
  /\ Begin(n)
  /\ fd # -1
  /\ \E r1 \in -1..n : \E r2 \in -1..(n - r1) :
       /\ file' = WriteTwice(file, Chunk(n), r1, r2)
       /\ faults' = (faults \/ r1 # n)
  /\ UNCHANGED <<static, fd>>

Write == \E n \in 1..MaxChunk : WriteStatic(n) \/ SpillFails(n) \/ Spill(n) \/ WriteFile(n)

-----------------------------------------------------------------------------
(* fcache::length, fcache::data, mime::reset.                              *)

Length ==
  /\ stage = "length"
  /\ IF fd > 0
       THEN mlen' = Len(file) /\ total' = Len(file)
       ELSE total' = Len(static) /\ UNCHANGED mlen
  /\ stage' = "data"
  /\ UNCHANGED <<arrived, store, mapped, given, faults>>

\* The first total bytes at s, where memory behind its end holds junk.
Visible(s) == [i \in 1..total |-> IF i <= Len(s) THEN s[i] ELSE Junk]

Data ==
  /\ stage = "data"
  /\ IF fd < 0
       THEN given' = Visible(static) /\ UNCHANGED <<mapped, mlen>>
     ELSE IF mapped # -1
       THEN given' = Visible(SubSeq(file, 1, mapped)) /\ UNCHANGED <<mapped, mlen>>
     ELSE /\ mlen' = Len(file)
          /\ mapped' = Len(file)
          /\ given' = Visible(file)
  /\ stage' = "idle"
  /\ UNCHANGED <<arrived, store, total, faults>>

\* ~fcache and a new one, for the next request.
Reset ==
  /\ stage = "idle" /\ arrived > 0
  /\ arrived' = 0
  /\ static' = <<>> /\ fd' = -1 /\ file' = <<>>
  /\ mapped' = -1 /\ mlen' = 0
  /\ total' = 0 /\ given' = <<>>
  /\ faults' = FALSE
  /\ UNCHANGED stage

CacheNext == Write \/ Length \/ Data \/ Reset
CacheSpec == CacheInit /\ [][CacheNext]_cacheVars

-----------------------------------------------------------------------------
(* Properties.                                                             *)

\* The values the variables hold.
CacheTypeOK ==
  /\ arrived \in 0..MaxBytes
  /\ static \in Seq(Nat) /\ Len(static) <= Cap
  /\ file \in Seq(Nat) /\ fd \in Fds \cup {-1}
  /\ mapped \in Nat \cup {-1} /\ mlen \in Nat /\ total \in Nat
  /\ given \in Seq(Nat)
  /\ stage \in {"idle", "length", "data"}
  /\ faults \in BOOLEAN

\* As long as the system calls do what they are asked, parse is given exactly the bytes
\* that have arrived for this request, before, across and after the spill into the file
\* (write, length and data of fcache as mime::write uses them).
GivenAll ==
  (stage = "idle" /\ ~faults /\ fd # 0) =>
    /\ Len(given) = arrived
    /\ \A i \in 1..arrived : given[i] = i

\* A mapping that is used or undone covers the file as it is, and its recorded length is
\* its own: munmap never cuts less or more, and data never shows an older, shorter file.
MappingCurrent == mapped # -1 => mapped = Len(file) /\ mlen = mapped /\ fd # -1

\* Even when write(2) falls short or mkstemp fails, as long as it does not return -1 in
\* between, parse is given bytes of the request only, in their order: some may be
\* missing, none is foreign and none comes twice (the retry in fcache::write).
InOrder == (stage = "idle" /\ fd # 0 /\ \A i \in DOMAIN file : file[i] # Junk) =>
             \A i \in DOMAIN given : /\ given[i] # Junk
                                     /\ \A j \in 1..(i - 1) : given[j] < given[i]
=============================================================================
