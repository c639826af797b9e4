---------------------------- MODULE MCCacheLines ----------------------------
(***************************************************************************)
(* CacheLines with the Ethernet buffers of the Nucleo-F746ZG, of either    *)
(* size they may have, or with a program that is loaded.                   *)
(***************************************************************************)
EXTENDS CacheLines, DmaBuffers

Ethernet ==
  [rx_whole |-> eth_rx_buffer(Whole), tx_whole |-> eth_tx_buffer(Whole),
   rx_ragged |-> eth_rx_buffer(Ragged), tx_ragged |-> eth_tx_buffer(Ragged),
   variable |-> variable, program |-> program]
\* Both buffers have the same size.  Whole ones have their lines to themselves,
\* so they are met two objects at a time.
BuffersOrCode ==
  {{"rx_whole", "variable"}, {"tx_whole", "variable"}, {"rx_whole", "tx_whole"},
   {"rx_ragged", "tx_ragged", "variable"}, {"program", "variable"}}

=============================================================================
