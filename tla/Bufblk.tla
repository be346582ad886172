------------------------------- MODULE Bufblk -------------------------------
(***************************************************************************)
(* Buffer blocks (lib/utlt/src/utlt_buff.c): headers and buffers of a few  *)
(* size classes, each from a pool of its own.                              *)
(*                                                                         *)
(* Objects of a pool are alike, so that a pool is known by how many it has *)
(* left: mem is [blk, buf], the headers and, by class, the buffers that    *)
(* are free.  A block is a record of its members: size and len, and for    *)
(* buf the class of the pool that the buffer came from.  Operations that   *)
(* may fail return [ok, mem, blk]; a call runs under no lock of its own,   *)
(* each pool operation does, and callers share no block.                   *)
(***************************************************************************)
EXTENDS Integers, FiniteSets

CONSTANTS
  Classes,   \* the sizes of buffers
  PerClass,  \* buffers in a pool
  Blocks,    \* headers in bufblkPool
  Word       \* sizeof(uint32_t), what UTLT_Malloc adds

ASSUME BufblkAssumption ==
  /\ Classes \subseteq Nat \ {0} /\ IsFiniteSet(Classes)
  /\ PerClass \in Nat /\ Blocks \in Nat /\ Word \in Nat

BufblkPoolInit == [blk |-> Blocks, buf |-> [c \in Classes |-> PerClass]]

\* The class SelectBufblkOption picks for a size, as a set: empty if too big.
SelectClass(size) == {c \in Classes : size <= c /\ \A d \in Classes : size <= d => c <= d}

Failed(mem) == [ok |-> FALSE, mem |-> mem, blk |-> [buf |-> 0, size |-> 0, len |-> 0]]

\* A buffer, and the block's members; the size is rounded up to the class.
BufAlloc(mem, size) ==
  LET Had(c) == [ok |-> TRUE, mem |-> [mem EXCEPT !.buf[c] = @ - 1],
                 blk |-> [buf |-> c, size |-> c, len |-> 0]]
      from == {c \in SelectClass(size) : mem.buf[c] > 0}
  IN IF from = {} THEN Failed(mem) ELSE Had(CHOOSE c \in from : TRUE)

BufblkAlloc(mem, size) ==
  LET had == BufAlloc([mem EXCEPT !.blk = @ - 1], size)
  IN IF mem.blk = 0 \/ ~had.ok THEN Failed(mem) ELSE had

\* The buffer goes to the pool that the block's size member selects.
BufFree(mem, blk) ==
  [mem EXCEPT !.buf = [c \in Classes |-> IF c \in SelectClass(blk.size) THEN @[c] + 1 ELSE @[c]]]

BufblkFree(mem, blk) == [BufFree(mem, blk) EXCEPT !.blk = @ + 1]

(* Slip: the block's size is set before the old buffer is freed by it. *)
BufblkResize_SizeFirst(mem, blk, size) ==
  LET new == BufAlloc(mem, size)
  IN IF ~new.ok THEN [ok |-> FALSE, mem |-> mem, blk |-> blk]
     ELSE [ok |-> TRUE, mem |-> BufFree(new.mem, [blk EXCEPT !.size = new.blk.size]),
           blk |-> [new.blk EXCEPT !.len = blk.len]]

\* The new buffer is had before the old one is given back: on failure the
\* block is as it was.
BufblkResize(mem, blk, size) ==
  LET new == BufAlloc(mem, size)
      Least(a, b) == IF a < b THEN a ELSE b
  IN IF ~new.ok THEN [ok |-> FALSE, mem |-> mem, blk |-> blk]
     ELSE [ok |-> TRUE, mem |-> BufFree(new.mem, blk),
           blk |-> [new.blk EXCEPT !.len = Least(blk.len, new.blk.size)]]

BufIsNotEnough(blk, size) == blk.size - blk.len < size

(* Slip: room is looked for in the whole block. *)
BufblkBytes_NoLen(mem, blk, size) ==
  LET grown == IF blk.size < size THEN BufblkResize(mem, blk, blk.size + size)
               ELSE [ok |-> TRUE, mem |-> mem, blk |-> blk]
  IN IF grown.ok THEN [grown EXCEPT !.blk.len = @ + size] ELSE grown

\* BufblkBytes, and BufblkBuf, which calls it: grows the block if need be.
BufblkBytes(mem, blk, size) ==
  LET grown == IF BufIsNotEnough(blk, size) THEN BufblkResize(mem, blk, blk.size + size)
               ELSE [ok |-> TRUE, mem |-> mem, blk |-> blk]
  IN IF grown.ok THEN [grown EXCEPT !.blk.len = @ + size] ELSE grown

\* A buffer that holds its size in its first word, so that UTLT_Free can make
\* a block of it again.
UTLT_Malloc(mem, size) ==
  LET had == BufAlloc(mem, size + Word)
  IN IF had.ok THEN [had EXCEPT !.blk.size = size + Word] ELSE had

UTLT_Free(mem, value) == BufFree(mem, value)
=============================================================================
