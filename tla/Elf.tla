-------------------------------- MODULE Elf --------------------------------
(***************************************************************************)
(* The files of compile.c and unix.c: an executable of three headers and   *)
(* the text, or the text alone for a shell code; and what becomes of a     *)
(* file in memory.                                                         *)
(*                                                                         *)
(* A text is `code' bytes of code and `emitted' bytes of variables behind  *)
(* it; `reserved' is what variable_size_sum takes the variables for.       *)
(***************************************************************************)
EXTENDS Integers

CONSTANTS
    ELF_HEADER_SIZE,    \* 0xb0
    PAGE,               \* 0x1000
    BASE                \* 0x400000

ASSUME ElfAssumption ==
    /\ ELF_HEADER_SIZE \in Nat /\ PAGE \in Nat \ {0} /\ BASE \in Nat
    /\ BASE % PAGE = 0

\* A segment: a part of the file, the address it is loaded at, and whether it is code.
Segment(offset, address, size, executable) ==
    [offset |-> offset, address |-> address, size |-> size, executable |-> executable]

\* elf_text_sector and elf_data_sector.  The numbers are of 32 bits; one that is negative
\* here stands for one that is far behind the end of any file.
\* Mutant: the variables counted to the code.
CoreOfAll(text_size, data_size) == ELF_HEADER_SIZE + text_size
Core(text_size, data_size) == ELF_HEADER_SIZE + text_size - data_size

TextSegment(text_size, data_size) == Segment(0, BASE, Core(text_size, data_size), TRUE)

DataSegment(text_size, data_size) ==
    LET core == Core(text_size, data_size)
    IN  Segment(core, BASE + PAGE + core, data_size, FALSE)

\* elf_main_header.
EntryAddress(main_entry_point) == BASE + ELF_HEADER_SIZE + main_entry_point

\* What the fields of the code refer to: code where it is, and variables a page further
\* (absolute, relative and unsorted of assembler.c).
CodeAddress(offset)     == BASE + ELF_HEADER_SIZE + offset
VariableAddress(offset) == BASE + PAGE + ELF_HEADER_SIZE + offset

-----------------------------------------------------------------------------
(***************************************************************************)
(* The loader, which maps whole pages of the file.                         *)
(***************************************************************************)
PageDown(n) == n - (n % PAGE)
PageUp(n)   == PageDown(n + PAGE - 1)

Loadable(segment, file_size) ==
    segment.offset >= 0 /\ segment.size >= 0 /\ segment.offset + segment.size <= file_size

Maps(segment, address) ==
    segment.size > 0
    /\ PageDown(segment.address) <= address /\ address < PageUp(segment.address + segment.size)

\* The place in the file of what is found at an address.
FileOffset(segment, address) == segment.offset + (address - segment.address)

Overlap(s, t) ==
    s.size > 0 /\ t.size > 0
    /\ PageDown(s.address) < PageUp(t.address + t.size)
    /\ PageDown(t.address) < PageUp(s.address + s.size)

\* The executable is found in memory as its code expects: every byte of the code where a
\* jump would go and can be executed, every byte of the variables where they are read and
\* written, and execution starts at the entry.
LoadsAsAddressed(code, emitted, reserved, main_entry_point) ==
    LET text_size == code + emitted
        text == TextSegment(text_size, reserved)
        data == DataSegment(text_size, reserved)
        file_size == ELF_HEADER_SIZE + text_size
        found(segment, address, offset) ==
            Maps(segment, address) /\ FileOffset(segment, address) = ELF_HEADER_SIZE + offset
    IN  /\ Loadable(text, file_size) /\ Loadable(data, file_size)
        /\ ~Overlap(text, data)
        /\ \A o \in 0 .. code - 1 : found(text, CodeAddress(o), o)
        /\ \A o \in code .. text_size - 1 : found(data, VariableAddress(o), o)
        /\ EntryAddress(main_entry_point) = CodeAddress(main_entry_point)

=============================================================================
