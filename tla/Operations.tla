----------------------------- MODULE Operations -----------------------------
(***************************************************************************)
(* The enumerations of assembler.h that the tokens are made of: sizes,     *)
(* kinds of operands and operations.  Of the operations, the first and the *)
(* last of each range that shares a builder, and those with a part of      *)
(* their own.                                                              *)
(***************************************************************************)
EXTENDS Integers, Sequences

\* Sizes.
D8        == 0
D16       == 1
D32       == 2
D64       == 3

\* Kinds of operands.
REL       == 0
REG       == 1
MEM       == 2
IMM       == 3
DER       == 4
INT       == 5
BCF       == 6

\* Directives.
ASMDIRMEM == 0
ASMDIRREL == 1
ASMDIRIMM == 2
ASMDIRREP == 3

\* Operations.
ADD       == 4
CMP       == 11
INC       == 12
DEC       == 13
NEG       == 15
IDIV      == 19
ROL       == 20
SAL       == 24
SHL       == 26
SAR       == 27
FADD      == 28
FDIVR     == 35
FLADD     == 36
FLDIVR    == 43
FCMOVB    == 44
FCMOVU    == 47
FCMOVAE   == 48
FCMOVNU   == 51
NOP       == 52
POPF      == 54
PUSHF     == 55
LEAVE     == 59
RETN      == 67
RETF      == 68
SYSCALL   == 69
CPUID     == 73
FNOP      == 85
FCHS      == 86
FSIN      == 87
FCOS      == 88
FABS      == 89
FTST      == 90
FXAM      == 91
FLD1      == 92
FLDL2T    == 93
FLDL2E    == 94
FLDPI     == 95
FLDLG2    == 96
FLDLN2    == 97
FLDZ      == 98
F2XM1     == 99
FYL2X     == 100
FPTAN     == 101
FPATAN    == 102
FXTRACT   == 103
FPREM1    == 104
FDECSTP   == 105
FINCSTP   == 106
FPREM     == 107
FYL2XP1   == 108
FSQRT     == 109
FSINCOS   == 110
FRNDINT   == 111
FSCALE    == 112
FNCLEX    == 116
MONITOR   == 117
FCLEX     == 126
ENTER     == 127
CALL      == 128
IN_       == 129
OUT       == 130
JMP       == 131
MOV       == 132
POP       == 133
PUSH      == 134
JO        == 135
JE        == 139
JG        == 150
CMOVO     == 151
CMOVG     == 166
SETO      == 167
SETG      == 182
BT        == 183
BTC       == 186
BSF       == 187
BSR       == 188
BSWAP     == 189
LOOP      == 190
LOOPE     == 191
LOOPNE    == 192
OPERATION_END == 193

\* The operations that stand for machine instructions; the directives are below.
Instructions == ADD .. OPERATION_END - 1

\* The four bytes of a 32 bit value, least significant first.
LittleEndian(data) ==
    <<data % 256, (data \div 256) % 256, (data \div 65536) % 256, (data \div 16777216) % 256>>

=============================================================================
