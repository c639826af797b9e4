------------------------------ MODULE UsbFifos ------------------------------
(***************************************************************************)
(* How stm32_config divides the packet memory of the USB core, which the   *)
(* driver does when either image opens its link.  The core counts 32-bit   *)
(* words; the receive FIFO comes first, then one transmit FIFO per IN      *)
(* endpoint.                                                               *)
(***************************************************************************)
EXTENDS Integers, Sequences

FifoRam == 320        \* words in the packet memory of the full-speed core
control_endpoint_max_size == 64
BulkPacket == 64      \* largest packet of a full-speed bulk endpoint
UsbRxBuffer == 512    \* CONFIG_USB_RX_BUFFER_SIZE

\* Mutant: room for two packets in every transmit FIFO in use.
tx_fifo_word_size_doubled == <<32, 64, 64, 64, 0, 0>>

\* CONFIG_TX0_FIFO_WORDS .. CONFIG_TX5_FIFO_WORDS, CONFIG_RX_FIFO_WORDS.
tx_fifo_word_size == <<32, 32, 32, 64, 0, 0>>
rx_fifo_word_size == 128

\* Where each FIFO ends: the driver puts one behind the other.
FifoEnd[n \in 0..Len(tx_fifo_word_size)] ==
  IF n = 0 THEN rx_fifo_word_size ELSE FifoEnd[n - 1] + tx_fifo_word_size[n]

Words(bytes) == (bytes + 3) \div 4
\* The receive FIFO holds the setup packets, the largest packet with its
\* status, and a word for the end of each transfer (reference manual).
RxNeeds == 10 + 1 + Words(BulkPacket) + 1 + 2 * Len(tx_fifo_word_size)

\* What an endpoint needs that has a FIFO.
Needs(n) == Words(IF n = 1 THEN control_endpoint_max_size ELSE BulkPacket)
FifosFit ==
  /\ FifoEnd[Len(tx_fifo_word_size)] <= FifoRam
  /\ RxNeeds <= rx_fifo_word_size
  /\ \A n \in DOMAIN tx_fifo_word_size :
       tx_fifo_word_size[n] = 0 \/ Needs(n) <= tx_fifo_word_size[n]
  /\ tx_fifo_word_size[1] > 0
  /\ BulkPacket <= UsbRxBuffer

=============================================================================
