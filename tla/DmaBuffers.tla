----------------------------- MODULE DmaBuffers -----------------------------
(***************************************************************************)
(* The DMA buffers of the device table, in cells of half a cache line of   *)
(* 32 bytes.  They are in .bss, which is cached RAM; what is MCU_SYS_MEM   *)
(* is tightly coupled and not cached.                                      *)
(*                                                                         *)
(* Both have STM32_ETH_DMA_BUFFER_SIZE bytes, a number of the MCU library. *)
(* stm32f7xx_hal_conf.h counts in four buffers of ETH_MAX_PACKET_SIZE,     *)
(* which is 1524 in ST's HAL and four of which are 190 lines and a half.   *)
(* So the size is a parameter, and a buffer stands here for its last line, *)
(* which is whole or ragged.                                               *)
(***************************************************************************)
EXTENDS Integers

Line == 2
MCU_ALIGN_32 == Line
Object(cells, align, use) == [cells |-> cells, align |-> align, use |-> use]

Whole  == Line
Ragged == Line - 1

\* Mutant: the buffer without its alignment.
eth_rx_buffer_anywhere(size) == Object(size, 1, "receive")

eth_rx_buffer(size) == Object(size, MCU_ALIGN_32, "receive")
eth_tx_buffer(size) == Object(size, MCU_ALIGN_32, "send")

\* What else the linker puts there, and what the kernel loads.
variable == Object(1, 1, "variable")
program  == Object(Line, Line, "code")

=============================================================================
