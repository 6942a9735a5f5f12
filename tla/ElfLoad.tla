------------------------------ MODULE ElfLoad -------------------------------
(***************************************************************************)
(* amp_load_elf of the satlink_amp driver: which parts of an ELF image are *)
(* read, and where they are copied to, before Core 1 runs it.  Addresses   *)
(* and sizes are u32: sums wrap.  An image is refused at its first bad     *)
(* segment, when the segments before it have been copied.                  *)
(***************************************************************************)
EXTENDS Integers

CONSTANTS
  Word,              \* 2^32
  ElfHeader,         \* sizeof(struct elf32_hdr)
  HeaderSize,        \* sizeof(struct elf32_phdr)
  FwBase, FwSize,    \* reserved memory rtos_fw: code, data and stacks of Core 1
  DmaBase, DmaSize   \* modem_dma: its buffers

ASSUME ElfAssumption ==
  /\ Word \in Nat \ {0} /\ ElfHeader \in Nat /\ HeaderSize \in Nat \ {0}
  /\ FwBase \in Nat /\ FwSize \in Nat /\ FwBase + FwSize <= Word
  /\ DmaBase \in Nat /\ DmaSize \in Nat /\ DmaBase + DmaSize <= Word

U32 == 0 .. Word - 1
Segments == [load : BOOLEAN, offset : U32, filesz : U32, memsz : U32, paddr : U32]

(* amp_region_contains *)
Faulty_Contains(base, size, addr, n) == addr >= base /\ (addr + n) % Word <= base + size
Contains(base, size, addr, n) == addr >= base /\ n <= size /\ addr - base <= size - n

(* The ELF header and the table of program headers lie in a file of that size. *)
GoodHeaders(size, phoff, phnum) ==
  size >= ElfHeader /\ phoff <= size /\ phnum <= (size - phoff) \div HeaderSize

GoodEntry(entry) == Contains(FwBase, FwSize, entry, 4)

(* One segment: ignored, copied, left alone because it is NOLOAD, or bad.  *)
Ignored(s) == ~s.load \/ s.memsz = 0
GoodSizes(s, size) == s.filesz <= s.memsz /\ s.offset <= size /\ s.filesz <= size - s.offset
Copied(s, size) ==
  ~Ignored(s) /\ GoodSizes(s, size) /\ Contains(FwBase, FwSize, s.paddr, s.memsz)
NoLoad(s, size) ==
  ~Ignored(s) /\ GoodSizes(s, size) /\ s.filesz = 0 /\ Contains(DmaBase, DmaSize, s.paddr, s.memsz)

Firmware == FwBase .. FwBase + FwSize - 1
Dma == DmaBase .. DmaBase + DmaSize - 1

(* memcpy and memset of a copied segment. *)
Source(s) == s.offset .. s.offset + s.filesz - 1
Destination(s) == s.paddr .. s.paddr + s.memsz - 1

-----------------------------------------------------------------------------
(* Whatever the file says, nothing is read beyond its end - neither the    *)
(* ELF header nor the table of program headers - and nothing is written or *)
(* entered outside Core 1's own memory: neither Linux nor the rings and    *)
(* the control block between the two, also when an end address wraps.      *)
LoadsInside ==
  \A size \in U32 :
    /\ \A phoff, phnum \in U32 :
         GoodHeaders(size, phoff, phnum) =>
           ElfHeader <= size /\ phoff + phnum * HeaderSize <= size
    /\ \A entry \in U32 : GoodEntry(entry) => entry .. entry + 3 \subseteq Firmware
    /\ \A s \in Segments :
         /\ Copied(s, size) => /\ Source(s) \subseteq 0 .. size - 1
                               /\ Destination(s) \subseteq Firmware
         /\ NoLoad(s, size) => Destination(s) \subseteq Dma
=============================================================================
