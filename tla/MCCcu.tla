-------------------------------- MODULE MCCcu --------------------------------
(* A small instance of Ccu for TLC. *)
EXTENDS Ccu

(* Both sides of 12 * 24 and of 256 * 24, and what main asks for. *)
MCMhz == {0, 287, 288, 300, 408, 1008, 6143, 6144}

(* Identification, default and high speed of SD and MMC cards, both sides of *)
(* the oscillator's limit, and every divider of the oscillator.              *)
MCKhz == {0 - 1, 0, 12001, 20000, 25000, 26000, 50000, 52000, 300001} \union
         {12000 \div d : d \in 1 .. 128} \union {93}

(* 600 MHz, as U-Boot leaves it, and one that no rate divides. *)
MCPeri == {<<99, 0, 1>>, <<98, 0, 6>>}
=============================================================================
